---- MODULE Spec2Model ----
(***************************************************************************)
(* Image generation orchestrator of paper2slides:                          *)
(*   ImageGenerator.generate and the methods it dispatches to              *)
(*   (src/paper2slides/generator/image_generator.py), driven as            *)
(*   run_generate_stage drives it                                          *)
(*   (src/paper2slides/core/stages/generate_stage.py).                     *)
(*                                                                         *)
(* Python indices are kept: sections, slots and slide indices are 0-based  *)
(* functions; Python lists that only grow are TLA+ sequences.              *)
(* None is the empty sequence <<>>, a value x that may be None is <<x>>.   *)
(***************************************************************************)
EXTENDS Integers, Sequences, FiniteSets, TLC

VARIABLES
    cfg,              \* the arguments of __init__ and generate, and the plan
    pc,               \* position of the thread that called generate
    err,              \* the exception generate raised ("" while none)
    i,                \* loop variable of the sequential / export loop
    processed_style,  \* generate: processed_style (None or a ProcessedStyle)
    style_calls,      \* requests sent to the style-resolution LLM
    style_ref_image,  \* _generate_slides_api_mode: style_ref_image
    status,           \* per slide index: state of its _call_model invocation
    attempt,          \* per slide index: backend requests issued so far
    refs,             \* per slide index: reference_images handed to _call_model
    future,           \* per slide index: value its job produced (None or image)
    executor,         \* the ThreadPoolExecutor: "none", "open", "closed"
    queue,            \* work queue of the executor (submitted, not started)
    yielded,          \* futures as_completed has handed to the main thread
    results_dict,     \* results_dict, in insertion order: <<[idx, img], ...>>
    results,          \* results, the list generate returns
    saved,            \* save_callback invocations, in order
    files,            \* files and directories written so far
    cm,               \* one stand-alone _call_model invocation
    exported_prompts, \* self._exported_prompts
    imp,              \* one import_generated_images run and the directory it reads
    style_response,   \* what the style LLM answered to process_custom_style
    prompt,           \* per slide index, the ingredients of the prompt built for it
    enh               \* one enhance_speaker_notes run and the checkpoint file it reads

vars == <<cfg, pc, err, i, processed_style, style_calls, style_ref_image,
          status, attempt, refs, future, executor, queue, yielded,
          results_dict, results, saved, files, cm, exported_prompts, imp,
          style_response, prompt, enh>>

(***************************************************************************)
(* Bounds of the model                                                     *)
(***************************************************************************)
MaxSections == 4
MaxWorkers == 2
MaxImportSlides == 5
MaxEnhanceSections == 3

(***************************************************************************)
(* Program constants                                                       *)
(***************************************************************************)
max_retries == 3
retry_delay == 2

GENERATED_IMAGE_FILENAME == "generated.png"
INSTRUCTIONS_FILENAME == "INSTRUCTIONS.md"
IMPORT_ALTERNATIVE_FILENAMES ==
    <<"generated.jpg", "generated.jpeg", "slide.png", "slide.jpg", "output.png">>

Min(a, b) == IF a < b THEN a ELSE b

Slots == 0 .. (MaxSections - 1)

(***************************************************************************)
(* The plan. Section k has the k-th identifier; the identifiers are not    *)
(* in any sorted order, so that "section order" is the order of the plan   *)
(* and nothing else.                                                       *)
(***************************************************************************)
SectionIds == <<"overview", "method", "background", "results",
                "ablation", "conclusion", "appendix", "thanks">>
SectionTitles == <<"Overview", "Method", "Background", "Results",
                   "Ablation", "Conclusion", "Appendix", "Thanks">>
FigureIds == <<"Figure 1", "Figure 2", "Figure 3", "Figure 4",
               "Figure 5", "Figure 6", "Figure 7", "Figure 8">>

\* base64.b64encode / base64.b64decode: the encoded text is not the bytes.
B64Encode(bytes) == [b64 |-> bytes]
B64Decode(text) == text.b64

\* Sets of section indices that reference a figure (section k references
\* figure k only).
FigurePlans(n) == { {}, {k \in 0 .. (n - 1) : k % 2 = 0} }

\* The type tags of the sections: the usual deck (an opening slide, then
\* content), or a deck with tags no layout table knows at the odd positions
\* and an ending slide elsewhere.
TypePlans == {"usual", "unrecognized"}

SectionType(types, k) ==
    IF types = "usual" THEN (IF k = 0 THEN "opening" ELSE "content")
    ELSE (IF k % 2 = 1 THEN "timeline" ELSE "ending")

\* what can be found at a figure's image_path
FigureFiles == {"ok", "missing", "unreadable", "empty"}

\* the figure that section 2 references besides its own when c.second_fig
SecondFigure == FigureIds[8]

Sections(c) ==
    [k \in 0 .. (c.n - 1) |->
        [id |-> SectionIds[k + 1],
         title |-> SectionTitles[k + 1],
         section_type |-> SectionType(c.types, k),
         figures |-> (IF k \in c.figs THEN <<FigureIds[k + 1]>> ELSE <<>>)
                     \o (IF k = 2 /\ c.second_fig THEN <<SecondFigure>> ELSE <<>>)]]

\* Mutant of LoadFigure: a file that cannot be read is attached as an image
\* without data instead of being skipped.
LoadFigureKeepUnreadable(fig_id, bytes, file) ==
    IF file = "missing" THEN <<>>
    ELSE <<[figure_id |-> fig_id,
            caption |-> "caption",
            base64 |-> B64Encode(IF file = "ok" THEN bytes ELSE <<>>),
            mime_type |-> "image/png"]>>

\* one iteration of the loop of _load_figure_images: nothing for a file that
\* does not exist or cannot be read, else the dict with the encoded bytes
\* (none for an empty file)
LoadFigure(fig_id, bytes, file) ==
    IF file \in {"missing", "unreadable"} THEN <<>>
    ELSE <<[figure_id |-> fig_id,
            caption |-> "caption",
            base64 |-> B64Encode(IF file = "empty" THEN <<>> ELSE bytes),
            mime_type |-> "image/png"]>>

\* the file of the figure of section k: only that of section 2 can be bad
FigureFile(c, k) == IF k = 2 THEN c.fig_file ELSE "ok"

\* _load_figure_images: one dict per figure of plan.figures_index whose file
\* could be read, in index order.
RECURSIVE LoadFrom(_, _)
LoadFrom(c, k) ==
    IF k >= c.n THEN <<>>
    ELSE (IF k \in c.figs
          THEN LoadFigure(FigureIds[k + 1], <<100 + k>>, FigureFile(c, k))
          ELSE <<>>) \o LoadFrom(c, k + 1)

_load_figure_images(c) ==
    LoadFrom(c, 0)
    \o (IF c.n > 2 /\ c.second_fig THEN LoadFigure(SecondFigure, <<108>>, "ok") ELSE <<>>)

\* _filter_images(sections, figure_images) for the sections with the indices ks
_filter_images(c, ks, figure_images) ==
    LET used_ids == UNION { {Sections(c)[k].figures[x] :
                                x \in 1 .. Len(Sections(c)[k].figures)} : k \in ks }
    IN SelectSeq(figure_images, LAMBDA img : img.figure_id \in used_ids)

(***************************************************************************)
(* Style resolver                                                          *)
(***************************************************************************)
\* What client.chat.completions.create can do for the style request: answer
\* a JSON object (accepting the style, rejecting it with an error text, or
\* without a "valid" key), answer text that is not JSON, answer JSON that is
\* not an object, answer without choices, or raise a transport error.
LLMReplies ==
    { [kind |-> "json", has_valid |-> TRUE, valid |-> TRUE, error |-> <<>>],
      [kind |-> "json", has_valid |-> TRUE, valid |-> FALSE, error |-> <<"rejected">>],
      [kind |-> "json", has_valid |-> FALSE, valid |-> FALSE, error |-> <<>>],
      [kind |-> "not_json", has_valid |-> FALSE, valid |-> FALSE, error |-> <<>>],
      [kind |-> "not_object", has_valid |-> FALSE, valid |-> FALSE, error |-> <<>>],
      [kind |-> "no_choices", has_valid |-> FALSE, valid |-> FALSE, error |-> <<>>],
      [kind |-> "exception", has_valid |-> FALSE, valid |-> FALSE, error |-> <<>>] }

\* str(e) of the exception each failure raises inside the try block
ExceptionText(kind) ==
    CASE kind = "not_json" -> "Expecting value: line 1 column 1 (char 0)"
      [] kind = "not_object" -> "'list' object has no attribute 'get'"
      [] kind = "no_choices" -> "list index out of range"
      [] OTHER -> "Connection error."

\* what the style LLM can answer: without credentials of its own
\* (RAG_LLM_API_KEY) the image client is used, and without an image API key
\* every request is rejected
StyleReplies(c) ==
    IF c.llm_client \/ c.api_key THEN LLMReplies
    ELSE {r \in LLMReplies : r.kind = "exception"}

\* Mutant of process_custom_style: the except branch drops the message.
process_custom_style_no_message(reply) ==
    IF reply.kind = "json"
    THEN [style_name |-> "resolved",
          valid |-> (IF reply.has_valid THEN reply.valid ELSE FALSE),
          error |-> reply.error]
    ELSE [style_name |-> "", valid |-> FALSE, error |-> <<>>]

\* result.get("valid", False), result.get("error"); except Exception as e:
\* valid=False, error=str(e)
process_custom_style(reply) ==
    IF reply.kind = "json"
    THEN [style_name |-> "resolved",
          valid |-> (IF reply.has_valid THEN reply.valid ELSE FALSE),
          error |-> reply.error]
    ELSE [style_name |-> "", valid |-> FALSE, error |-> <<ExceptionText(reply.kind)>>]

(***************************************************************************)
(* Generation backend, interactive variant: one attempt of _call_model     *)
(***************************************************************************)
Mimes == {"image/png", "image/jpeg"}

\* what makes an attempt fail: a None response, one without choices, one
\* without images, an image whose URL is no data: URL, a data: URL that
\* cannot be split or decoded, an exception raised by the client
FailureResponses ==
    { [kind |-> k, mime |-> "", payload |-> B64Encode(<<>>)] :
        k \in {"none", "no_choices", "no_images", "url", "bad_data_url",
                "exception"} }

ImageResponse(bytes, mime) ==
    [kind |-> "data", mime |-> mime, payload |-> B64Encode(bytes)]

\* What the backend may answer to a request for slide index k in a batch: any
\* failure, or the image it generated for that slide's prompt.
BackendResponses(k) == FailureResponses \cup {ImageResponse(<<k + 1>>, "image/png")}

\* The backend as the client of this generator reaches it: a client built with
\* an empty API key (no api_key argument, IMAGE_GEN_API_KEY unset) still sends
\* its requests, and every one of them is rejected.
Backend(c, k) ==
    IF c.api_key THEN BackendResponses(k)
    ELSE {r \in FailureResponses : r.kind = "exception"}

\* Mutant of CallModelStep: there is no handler around the request, so an
\* exception of the client leaves _call_model at once.
CallModelStepNoHandler(att, resp) ==
    IF resp.kind = "data"
    THEN [outcome |-> "return", image_data |-> B64Decode(resp.payload),
          mime_type |-> resp.mime, sleep |-> 0]
    ELSE IF att < max_retries - 1 /\ resp.kind # "exception"
         THEN [outcome |-> "retry", image_data |-> <<>>, mime_type |-> "",
               sleep |-> retry_delay * (att + 1)]
         ELSE [outcome |-> "raise", image_data |-> <<>>, mime_type |-> "",
               sleep |-> 0]

\* Mutant of CallModelStep: the backoff does not grow, every wait is
\* retry_delay.
CallModelStepConstantDelay(att, resp) ==
    IF resp.kind = "data"
    THEN [outcome |-> "return", image_data |-> B64Decode(resp.payload),
          mime_type |-> resp.mime, sleep |-> 0]
    ELSE IF att < max_retries - 1
         THEN [outcome |-> "retry", image_data |-> <<>>, mime_type |-> "",
               sleep |-> retry_delay]
         ELSE [outcome |-> "raise", image_data |-> <<>>, mime_type |-> "",
               sleep |-> 0]

\* Mutant of CallModelStep: the ceiling test is off by one (attempt <
\* max_retries), so the third failure is retried instead of raised.
CallModelStepExtraAttempt(att, resp) ==
    IF resp.kind = "data"
    THEN [outcome |-> "return", image_data |-> B64Decode(resp.payload),
          mime_type |-> resp.mime, sleep |-> 0]
    ELSE IF att < max_retries
         THEN [outcome |-> "retry", image_data |-> <<>>, mime_type |-> "",
               sleep |-> retry_delay * (att + 1)]
         ELSE [outcome |-> "raise", image_data |-> <<>>, mime_type |-> "",
               sleep |-> 0]

\* One iteration of the retry loop: `attempt` is the loop variable (0-based),
\* resp what client.chat.completions.create produced.
CallModelStep(att, resp) ==
    IF resp.kind = "data"
    THEN [outcome |-> "return", image_data |-> B64Decode(resp.payload),
          mime_type |-> resp.mime, sleep |-> 0]
    ELSE IF att < max_retries - 1
         THEN [outcome |-> "retry", image_data |-> <<>>, mime_type |-> "",
               sleep |-> retry_delay * (att + 1)]
         ELSE [outcome |-> "raise", image_data |-> <<>>, mime_type |-> "",
               sleep |-> 0]

GeneratedImage(section_id, image_data, mime_type) ==
    [section_id |-> section_id, image_data |-> image_data, mime_type |-> mime_type]

(***************************************************************************)
(* Persistence sink: save_image_callback of run_generate_stage             *)
(***************************************************************************)
ExtMap(mime) ==
    CASE mime = "image/png" -> ".png"
      [] mime = "image/jpeg" -> ".jpg"
      [] mime = "image/webp" -> ".webp"
      [] OTHER -> ".png"

\* '{:02d}'.format(n): the decimal digits of n, padded with a zero to two
RECURSIVE Digits(_)
Digits(n) == IF n < 10 THEN <<n>> ELSE Digits(n \div 10) \o <<n % 10>>

Format02d(n) == IF n < 10 THEN <<0, n>> ELSE Digits(n)

\* a path written by the run: what it is, the formatted slide number in its
\* name (<<>> if none), its stem and its extension
File(kind, slide, name, ext) == [kind |-> kind, slide |-> slide, name |-> name, ext |-> ext]

\* Mutant of SavedAfter: the invocations are ordered by slide index, as if
\* the images were saved after the pool had finished instead of as each
\* job is handed over.
SavedAfterByIndex(c, sv, img, index, total) ==
    IF c.save_callback
    THEN LET before == {x \in 1 .. Len(sv) : sv[x].index < index}
             n == Cardinality(before)
         IN SubSeq(sv, 1, n)
            \o <<[section_id |-> img.section_id, index |-> index, total |-> total]>>
            \o SubSeq(sv, n + 1, Len(sv))
    ELSE sv

\* save_callback(generated_img, index, total), if a callback was given
SavedAfter(c, sv, img, index, total) ==
    IF c.save_callback
    THEN Append(sv, [section_id |-> img.section_id, index |-> index, total |-> total])
    ELSE sv

FilesAfterSave(c, fs, img) ==
    IF c.save_callback
    THEN fs \cup {File("output", <<>>, img.section_id, ExtMap(img.mime_type))}
    ELSE fs

(***************************************************************************)
(* Reference chain policy and scheduling helpers of                        *)
(* _generate_slides_api_mode                                               *)
(***************************************************************************)
\* Mutant of SequentialCount: only the first slide is generated ahead of the pool.
SequentialCountOne(total) == Min(1, total)

\* for i in range(min(2, total))
SequentialCount(total) == Min(2, total)

\* range(2, total)
ParallelIndices(total) == 2 .. (total - 1)

\* the style reference captured from the output of slide index 1
StyleRefImage(image_data, mime_type) ==
    [figure_id |-> "Reference Slide",
     caption |-> "STRICTLY MAINTAIN",
     base64 |-> B64Encode(image_data),
     mime_type |-> mime_type]

\* Mutant of CaptureAnchor: the index test is missing and every returned
\* slide overwrites the reference.
CaptureAnchorEverySlide(k, style_ref, image_data, mime_type) ==
    <<StyleRefImage(image_data, mime_type)>>

\* Mutant of CaptureAnchor: the first slide (i == 0) is taken as the reference.
CaptureAnchorAtFirstSlide(k, style_ref, image_data, mime_type) ==
    IF k = 0 THEN <<StyleRefImage(image_data, mime_type)>> ELSE style_ref

\* if i == 1: style_ref_image = {...}
CaptureAnchor(k, style_ref, image_data, mime_type) ==
    IF k = 1 THEN <<StyleRefImage(image_data, mime_type)>> ELSE style_ref

\* reference_images of a slide job: the anchor, if set, then the section's figures
ReferenceImages(style_ref, section_images) ==
    (IF style_ref # <<>> THEN style_ref ELSE <<>>) \o section_images

\* Mutant of AfterSequential: the pool is created from two slides on
\* (total >= 2).
AfterSequentialPoolFromTwo(k, total) ==
    IF k < SequentialCount(total) THEN "seq"
    ELSE IF total >= 2 THEN "pool" ELSE "returned"

\* where the main thread goes after iteration k - 1 of the sequential loop
AfterSequential(k, total) ==
    IF k < SequentialCount(total) THEN "seq"
    ELSE IF total > 2 THEN "pool" ELSE "returned"

\* Mutant of AfterExport: the instructions are written one slide early, as
\* with range(total - 1).
AfterExportBeforeLast(k, total_slides) ==
    IF k < total_slides - 1 THEN "export" ELSE "instructions"

\* the export loop: for i in range(total), then _generate_instructions_md
AfterExport(k, total_slides) == IF k < total_slides THEN "export" ELSE "instructions"

\* Mutant of DictStore: the table has one slot that every job writes, so a
\* write replaces whatever another job stored before.
DictStoreOneSlot(rd, idx, img) == <<[idx |-> idx, img |-> img]>>

\* results_dict[idx] = generated_img: the entry of key idx is replaced if the
\* key is present, a new entry is inserted after the others if it is not
DictStore(rd, idx, img) ==
    IF \E x \in 1 .. Len(rd) : rd[x].idx = idx
    THEN [x \in 1 .. Len(rd) |->
            IF rd[x].idx = idx THEN [idx |-> idx, img |-> img] ELSE rd[x]]
    ELSE Append(rd, [idx |-> idx, img |-> img])

\* results_dict[k]
Lookup(rd, k) == (CHOOSE e \in {rd[x] : x \in 1 .. Len(rd)} : e.idx = k).img

\* Mutant of AppendInOrder: the images are appended as results_dict holds
\* them, in the order the jobs completed.
AppendInCompletionOrder(res, rd, total) ==
    res \o [x \in 1 .. Len(rd) |-> rd[x].img]

\* for i in range(2, total): results.append(results_dict[i])
AppendInOrder(res, rd, total) ==
    res \o [x \in 1 .. (total - 2) |-> Lookup(rd, x + 1)]

\* Mutant of ShutdownComplete: the pool is shut down without waiting for the
\* jobs that are pending or running.
ShutdownNoWait(st, q) == TRUE

\* Mutant of OnSequentialRaise: the failure is swallowed and the loop goes on.
OnSequentialRaiseContinue(k, total) == AfterSequential(k + 1, total)

\* _call_model is called without a handler in the sequential loop: its
\* exception leaves the loop and generate
OnSequentialRaise(k, total) == "raised"

\* with ThreadPoolExecutor(...) exit: shutdown(wait=True) returns once no
\* submitted job is pending or running
ShutdownComplete(st, q) ==
    q = <<>> /\ \A k \in Slots : st[k] # "running"

(***************************************************************************)
(* generate: style resolution and dispatch                                 *)
(***************************************************************************)
\* Mutant of StyleUsable: the valid flag of the resolved style is not checked.
StyleUsableUnchecked(ps) == TRUE

\* if not processed_style.valid: raise
StyleUsable(ps) == ps.valid

\* Mutant of Dispatch: a slide plan is sent to the backend whatever the mode.
DispatchSlidesAlwaysApi(output_type, mode) ==
    IF output_type = "poster"
    THEN (IF mode = "prompt" THEN "raise" ELSE "poster")
    ELSE "seq"

\* Mutant of Dispatch: the poster check is missing and a poster plan in prompt
\* mode is exported like slides.
DispatchPosterAsSlides(output_type, mode) ==
    IF mode = "prompt" THEN "export"
    ELSE (IF output_type = "poster" THEN "poster" ELSE "seq")

\* where generate goes once the style is resolved
Dispatch(output_type, mode) ==
    IF output_type = "poster"
    THEN (IF mode = "prompt" THEN "raise" ELSE "poster")
    ELSE (IF mode = "prompt" THEN "export" ELSE "seq")

(***************************************************************************)
(* Prompt builder: the layout rule and, in export mode, the reference      *)
(* chain instruction                                                       *)
(***************************************************************************)
\* The layout tables of prompts/image_generation.py: a rule per type tag,
\* each table with a "content" entry.
SLIDE_LAYOUTS_ACADEMIC ==
    [t \in {"opening", "content", "ending"} |-> <<"academic", t>>]

SLIDE_LAYOUTS_DORAEMON ==
    [t \in {"opening", "content", "ending"} |-> <<"doraemon", t>>]

SLIDE_LAYOUTS_DEFAULT ==
    [t \in {"opening", "content", "ending"} |-> <<"default", t>>]

\* _generate_slides: the table is chosen by the style name
SelectLayouts(style_name) ==
    IF style_name = "custom" THEN SLIDE_LAYOUTS_DEFAULT
    ELSE IF style_name = "doraemon" THEN SLIDE_LAYOUTS_DORAEMON
    ELSE SLIDE_LAYOUTS_ACADEMIC

\* Mutant of LayoutRule: an unknown type tag gets the opening layout.
LayoutRuleFallbackOpening(layouts, section_type) ==
    IF section_type \in DOMAIN layouts THEN layouts[section_type] ELSE layouts["opening"]

\* layouts.get(section.section_type, layouts["content"])
LayoutRule(layouts, section_type) ==
    IF section_type \in DOMAIN layouts THEN layouts[section_type] ELSE layouts["content"]

\* Mutant of _build_reference_chain_instruction: later slides are told to
\* attach the slide just before them.
_build_reference_chain_instruction_previous(slide_num, total_slides) ==
    IF slide_num = 1
    THEN [attach |-> <<>>, result_is |-> "reference for slide 2", deck_size |-> <<>>]
    ELSE IF slide_num = 2
    THEN [attach |-> <<1>>, result_is |-> "style reference for all remaining slides",
          deck_size |-> <<>>]
    ELSE [attach |-> <<slide_num - 1>>, result_is |-> "", deck_size |-> <<total_slides>>]

\* _build_reference_chain_instruction: which slide's image the text tells to
\* upload (<<>>: no reference needed), what it says the result will be used
\* for, and the deck size it quotes
_build_reference_chain_instruction(slide_num, total_slides) ==
    IF slide_num = 1
    THEN [attach |-> <<>>, result_is |-> "reference for slide 2", deck_size |-> <<>>]
    ELSE IF slide_num = 2
    THEN [attach |-> <<1>>, result_is |-> "style reference for all remaining slides",
          deck_size |-> <<>>]
    ELSE [attach |-> <<2>>, result_is |-> "", deck_size |-> <<total_slides>>]

Configs ==
    UNION {
      { c \in [n : {n},
               output_type : {"poster", "slides"},
               mode : {"api", "prompt"},
               style_name : {"academic", "custom"},
               custom_style : {"", "cyberpunk"},
               llm_client : BOOLEAN,
               api_key : BOOLEAN,
               save_callback : BOOLEAN,
               max_workers : 1 .. MaxWorkers,
               prompt_output_dir : BOOLEAN,
               prompts_dir_exists : BOOLEAN,
               figs : FigurePlans(n),
               \* the plan's files and type tags vary in ConfigsPlan only
               fig_file : {"ok"},
               second_fig : {FALSE},
               types : {"usual"},
               export_fault : {<<>>}] :
          \* arguments the run never reads are fixed
          /\ (c.style_name # "custom") => (c.custom_style = "")
          /\ (c.mode = "api") => ~c.prompt_output_dir
          /\ (c.mode = "prompt") => c.api_key
          /\ ~c.prompt_output_dir => ~c.prompts_dir_exists
          /\ (c.mode = "prompt" \/ c.output_type = "poster") => (c.max_workers = 1) } :
      n \in 0 .. MaxSections }

\* Runs over plans whose type tags, styles and figure files vary: every
\* preset and the custom style without description, a figure of section 2
\* whose file is fine, missing, unreadable or empty, next to a second figure
\* or not; one worker, no callback, credentials present.
ConfigsPlan ==
    UNION {
      { c \in [n : {n},
               output_type : {"poster", "slides"},
               mode : {"api", "prompt"},
               style_name : {"academic", "doraemon", "custom"},
               custom_style : {""},
               llm_client : {FALSE},
               api_key : {TRUE},
               save_callback : {FALSE},
               max_workers : {1},
               prompt_output_dir : BOOLEAN,
               prompts_dir_exists : {FALSE},
               figs : {{k \in 0 .. (n - 1) : k % 2 = 0}},
               fig_file : FigureFiles,
               second_fig : BOOLEAN,
               types : TypePlans,
               export_fault : {<<>>}] :
          /\ c.prompt_output_dir = (c.mode = "prompt")
          /\ (c.n <= 2) => (c.fig_file = "ok" /\ ~c.second_fig) } :
      n \in 0 .. MaxSections }

\* the file system refuses one operation of the export: the creation of the
\* directory of slide number `slide`, the writing of its prompt file, or the
\* writing of its placeholder by the save callback (OSError)
ExportFaults ==
    { <<[slide |-> n, at |-> at]>> :
        n \in 1 .. MaxSections, at \in {"slide_dir", "prompt_file", "save_callback"} }

\* Export runs of slide plans, with a preset or a custom style, with or
\* without a save callback, an existing prompt directory or none, and at
\* most one refused file operation.
ConfigsExport ==
    UNION {
      { c \in [n : {n},
               output_type : {"slides"},
               mode : {"prompt"},
               style_name : {"academic", "custom"},
               custom_style : {"", "cyberpunk"},
               llm_client : {TRUE},
               api_key : {TRUE},
               save_callback : BOOLEAN,
               max_workers : {1},
               prompt_output_dir : BOOLEAN,
               prompts_dir_exists : BOOLEAN,
               figs : {{k \in 0 .. (n - 1) : k % 2 = 0}},
               fig_file : {"ok"},
               second_fig : {FALSE},
               types : {"usual"},
               export_fault : {<<>>} \cup ExportFaults] :
          /\ (c.style_name # "custom") => (c.custom_style = "")
          /\ ~c.prompt_output_dir => ~c.prompts_dir_exists
          /\ c.export_fault # <<>> =>
                /\ c.prompt_output_dir
                /\ c.export_fault[1].slide <= c.n
                /\ (c.export_fault[1].at = "save_callback") => c.save_callback } :
      n \in 0 .. MaxSections }

\* import_generated_images before it is called: the directory it will read
\* (slide directory name -> file names in it), its locals and what it did
IdleImport ==
    [pc |-> "idle", disk |-> {}, slide_dirs |-> <<>>, k |-> 1, deck |-> <<>>,
     missing_slides |-> <<>>, imported_count |-> 0, saved_deck |-> <<>>,
     err |-> "", main |-> "",
     sidecar |-> [state |-> "absent", sections |-> <<>>],
     speaker_notes |-> <<>>]

\* enhance_speaker_notes before it is called: the checkpoint file as it was
\* given (input) and as it is on disk (file), the sections in memory, the
\* loop position, the count, and what was saved and returned
IdleEnhance ==
    [pc |-> "idle", doc |-> "ok", input |-> <<>>, file |-> <<>>, sections |-> <<>>,
     idx |-> 1, enhanced_count |-> 0, saves |-> 0, result |-> <<>>, err |-> ""]

IdleCall == [state |-> "idle", attempt |-> 0, log |-> <<>>, sleeps |-> <<>>,
             image_data |-> <<>>, mime_type |-> ""]

Init ==
    /\ cfg \in Configs
    /\ pc = "generate"
    /\ err = ""
    /\ i = 0
    /\ processed_style = <<>>
    /\ style_calls = 0
    /\ style_ref_image = <<>>
    /\ status = [k \in Slots |-> "idle"]
    /\ attempt = [k \in Slots |-> 0]
    /\ refs = [k \in Slots |-> <<>>]
    /\ future = [k \in Slots |-> <<>>]
    /\ executor = "none"
    /\ queue = <<>>
    /\ yielded = {}
    /\ results_dict = <<>>
    /\ results = <<>>
    /\ saved = <<>>
    /\ files = {}
    /\ cm = IdleCall
    /\ exported_prompts = <<>>
    /\ style_response = <<>>
    /\ prompt = [k \in Slots |-> <<>>]
    /\ imp = IdleImport
    /\ enh = IdleEnhance

total == cfg.n

\* _build_slide_prompt for slide index k: the layout rule and the positional
\* marker f"Slide {i+1} of {total}"; chain is the reference chain instruction
\* that _export_prompt puts in front of it in the prompt file (<<>> if none)
SlidePrompt(c, k, chain) ==
    <<[layout_rule |-> LayoutRule(SelectLayouts(c.style_name), Sections(c)[k].section_type),
       slide_info |-> <<k + 1, c.n>>,
       chain |-> chain,
       content |-> <<>>]>>

\* the parts a reference image adds to the request: its label and its data
\* URL, or nothing when it has no data or no MIME type
RECURSIVE ReferenceParts(_)
ReferenceParts(reference_images) ==
    IF reference_images = <<>> THEN <<>>
    ELSE LET img == Head(reference_images)
         IN (IF img.base64 # B64Encode(<<>>) /\ img.mime_type # ""
             THEN <<[type |-> "text", figure_id |-> img.figure_id, caption |-> img.caption],
                    [type |-> "image_url", mime_type |-> img.mime_type,
                     base64 |-> img.base64]>>
             ELSE <<>>) \o ReferenceParts(Tail(reference_images))

\* Mutant of CallModelContent: the images come first and the prompt last.
CallModelContentPromptLast(p, reference_images) ==
    <<[p[1] EXCEPT !.content =
         ReferenceParts(reference_images)
         \o <<[type |-> "prompt", slide_info |-> p[1].slide_info]>>]>>

\* _call_model, lines 824-836: the content of the request made with prompt
\* p and the reference list
CallModelContent(p, reference_images) ==
    <<[p[1] EXCEPT !.content =
         <<[type |-> "prompt", slide_info |-> p[1].slide_info]>>
         \o ReferenceParts(reference_images)]>>

Raise(cause) == pc' = "raised" /\ err' = cause

\* Mutant of NeedsStyleResolution: the description is not looked at.
NeedsStyleResolutionAnyCustom(style_name, custom_style) == style_name = "custom"

\* if style_name == "custom" and custom_style
NeedsStyleResolution(style_name, custom_style) ==
    style_name = "custom" /\ custom_style # ""

\* generate, lines 203-236, and _generate_slides, lines 257-272, up to the
\* first backend request or exported prompt
Generate ==
    /\ pc = "generate"
    /\ LET needs_style == NeedsStyleResolution(cfg.style_name, cfg.custom_style)
           style_client == cfg.llm_client \/ cfg.mode = "api"
           target == Dispatch(cfg.output_type, cfg.mode)
           go == IF target = "raise" THEN Raise("poster_in_prompt_mode")
                 ELSE /\ err' = err
                      /\ pc' = CASE target = "seq" -> AfterSequential(0, total)
                                 [] target = "export" -> AfterExport(0, total)
                                 [] OTHER -> target
       IN \/ /\ needs_style /\ ~style_client
             /\ Raise("no_style_client")
             /\ UNCHANGED <<processed_style, style_calls, style_response>>
          \/ /\ needs_style /\ style_client
             /\ \E reply \in StyleReplies(cfg) :
                  LET ps == process_custom_style(reply)
                  IN /\ style_calls' = style_calls + 1
                     /\ style_response' = <<reply>>
                     /\ processed_style' = <<ps>>
                     /\ IF ~StyleUsable(ps)
                        THEN Raise("invalid_custom_style")
                        ELSE go
          \/ /\ ~needs_style
             /\ go
             /\ UNCHANGED <<processed_style, style_calls, style_response>>
    /\ UNCHANGED <<cfg, i, style_ref_image, status, attempt, refs, future,
                   executor, queue, yielded, results_dict, results, saved,
                   files, cm, exported_prompts, imp, enh, prompt>>


(***************************************************************************)
(* Poster: _generate_poster and the save of its one image                  *)
(***************************************************************************)
\* Mutant of PosterSave: the callback is given the number of sections as total.
PosterSaveWithPlanTotal(c, sv, img) == SavedAfter(c, sv, img, 0, c.n)

\* if save_callback and result: save_callback(result[0], 0, 1)
PosterSave(c, sv, img) == SavedAfter(c, sv, img, 0, 1)

\* one backend request of the poster's _call_model invocation; the last one
\* carries generate to its return or its raise
PosterAttempt ==
    /\ pc = "poster"
    /\ \E resp \in Backend(cfg, 0) :
         LET all_images == _filter_images(cfg, 0 .. (total - 1), _load_figure_images(cfg))
             step == CallModelStep(attempt[0], resp)
             img == GeneratedImage("poster", step.image_data, step.mime_type)
         IN /\ attempt' = [attempt EXCEPT ![0] = @ + 1]
            /\ refs' = [refs EXCEPT ![0] = all_images]
            /\ CASE step.outcome = "retry" ->
                      /\ status' = [status EXCEPT ![0] = "running"]
                      /\ UNCHANGED <<pc, err, future, results, saved, files>>
                 [] step.outcome = "raise" ->
                      /\ status' = [status EXCEPT ![0] = "failed"]
                      /\ Raise("call_model")
                      /\ UNCHANGED <<future, results, saved, files>>
                 [] step.outcome = "return" ->
                      /\ status' = [status EXCEPT ![0] = "ok"]
                      /\ future' = [future EXCEPT ![0] = <<img>>]
                      /\ results' = <<img>>
                      /\ saved' = PosterSave(cfg, saved, img)
                      /\ files' = FilesAfterSave(cfg, files, img)
                      /\ pc' = "returned"
                      /\ err' = err
    /\ UNCHANGED <<cfg, i, processed_style, style_calls, style_ref_image,
                   executor, queue, yielded, results_dict, cm, exported_prompts, imp, enh,
                   style_response, prompt>>

(***************************************************************************)
(* _generate_slides_api_mode, sequential phase (lines 340-377)             *)
(***************************************************************************)
\* one backend request for slide index i of the sequential loop; a returned
\* image is recorded, captured as the anchor when i = 1, and saved
SeqAttempt ==
    /\ pc = "seq"
    /\ \E resp \in Backend(cfg, i) :
         LET section == Sections(cfg)[i]
             section_images == _filter_images(cfg, {i}, _load_figure_images(cfg))
             reference_images == ReferenceImages(style_ref_image, section_images)
             step == CallModelStep(attempt[i], resp)
             generated_img == GeneratedImage(section.id, step.image_data, step.mime_type)
         IN /\ attempt' = [attempt EXCEPT ![i] = @ + 1]
            /\ refs' = [refs EXCEPT ![i] = reference_images]
            /\ CASE step.outcome = "retry" ->
                      /\ status' = [status EXCEPT ![i] = "running"]
                      /\ UNCHANGED <<pc, err, i, style_ref_image, future, results,
                                     saved, files>>
                 [] step.outcome = "raise" ->
                      /\ status' = [status EXCEPT ![i] = "failed"]
                      /\ pc' = OnSequentialRaise(i, total)
                      /\ err' = "call_model"
                      /\ UNCHANGED <<i, style_ref_image, future, results, saved, files>>
                 [] step.outcome = "return" ->
                      /\ status' = [status EXCEPT ![i] = "ok"]
                      /\ future' = [future EXCEPT ![i] = <<generated_img>>]
                      /\ style_ref_image' =
                            CaptureAnchor(i, style_ref_image, step.image_data, step.mime_type)
                      /\ results' = Append(results, generated_img)
                      /\ saved' = SavedAfter(cfg, saved, generated_img, i, total)
                      /\ files' = FilesAfterSave(cfg, files, generated_img)
                      /\ i' = i + 1
                      /\ pc' = AfterSequential(i + 1, total)
                      /\ err' = err
    /\ prompt' = [prompt EXCEPT ![i] =
          CallModelContent(SlidePrompt(cfg, i, <<>>),
              ReferenceImages(style_ref_image,
                  _filter_images(cfg, {i}, _load_figure_images(cfg))))]
    /\ UNCHANGED <<cfg, processed_style, style_calls, executor, queue, yielded,
                   results_dict, cm, exported_prompts, imp, enh, style_response>>

(***************************************************************************)
(* _generate_slides_api_mode, parallel phase (lines 379-421)               *)
(***************************************************************************)
RECURSIVE Range(_, _)
Range(a, b) == IF a > b THEN <<>> ELSE <<a>> \o Range(a + 1, b)

\* Mutant of SubmittedIndices: the pool starts one slide too late, range(3, total).
SubmittedIndicesFromThird(n) == Range(3, n - 1)

\* executor.submit(generate_single, i, ...) for i in range(2, total), in order
SubmittedIndices(n) == Range(2, n - 1)

\* the executor is created and every remaining index is submitted
PoolSubmit ==
    /\ pc = "pool"
    /\ executor' = "open"
    /\ queue' = SubmittedIndices(total)
    /\ status' = [k \in Slots |-> IF k \in ParallelIndices(total) THEN "queued"
                                  ELSE status[k]]
    /\ pc' = "collect"
    /\ UNCHANGED <<cfg, err, i, processed_style, style_calls, style_ref_image,
                   attempt, refs, future, yielded, results_dict, results,
                   saved, files, cm, exported_prompts, imp, enh,
                   style_response, prompt>>

Running == {k \in Slots : status[k] = "running"}

\* a free worker thread takes the oldest queued job: generate_single(k, ...)
\* builds its reference list from the style_ref_image it reads
WorkerStart ==
    /\ executor = "open"
    /\ queue # <<>>
    /\ Cardinality(Running) < cfg.max_workers
    /\ LET k == Head(queue)
           section_images == _filter_images(cfg, {k}, _load_figure_images(cfg))
       IN /\ status' = [status EXCEPT ![k] = "running"]
          /\ refs' = [refs EXCEPT ![k] = ReferenceImages(style_ref_image, section_images)]
          /\ prompt' = [prompt EXCEPT ![k] =
                CallModelContent(SlidePrompt(cfg, k, <<>>),
                                 ReferenceImages(style_ref_image, section_images))]
    /\ queue' = Tail(queue)
    /\ UNCHANGED <<cfg, pc, err, i, processed_style, style_calls, style_ref_image,
                   attempt, future, executor, yielded, results_dict, results,
                   saved, files, cm, exported_prompts, imp, enh, style_response>>

\* one backend request of the running job k; its last one completes the future
WorkerAttempt(k) ==
    /\ status[k] = "running"
    /\ k \in ParallelIndices(total)
    /\ \E resp \in Backend(cfg, k) :
         LET step == CallModelStep(attempt[k], resp)
             generated_img == GeneratedImage(Sections(cfg)[k].id, step.image_data,
                                             step.mime_type)
         IN /\ attempt' = [attempt EXCEPT ![k] = @ + 1]
            /\ CASE step.outcome = "retry" -> UNCHANGED <<status, future>>
                 [] step.outcome = "raise" ->
                      /\ status' = [status EXCEPT ![k] = "failed"]
                      /\ UNCHANGED future
                 [] step.outcome = "return" ->
                      /\ status' = [status EXCEPT ![k] = "ok"]
                      /\ future' = [future EXCEPT ![k] = <<generated_img>>]
    /\ UNCHANGED <<cfg, pc, err, i, processed_style, style_calls, style_ref_image,
                   refs, executor, queue, yielded, results_dict, results,
                   saved, files, cm, exported_prompts, imp, enh,
                   style_response, prompt>>

Completed == {k \in ParallelIndices(total) : status[k] \in {"ok", "failed"}}

\* one iteration of `for future in as_completed(futures)`: future.result()
\* either hands over the image, which is recorded and saved, or re-raises
\* the job's exception, which leaves the loop
Collect(k) ==
    /\ pc = "collect"
    /\ k \in Completed \ yielded
    /\ yielded' = yielded \cup {k}
    /\ IF status[k] = "ok"
       THEN LET generated_img == future[k][1]
            IN /\ results_dict' = DictStore(results_dict, k, generated_img)
               /\ saved' = SavedAfter(cfg, saved, generated_img, k, total)
               /\ files' = FilesAfterSave(cfg, files, generated_img)
               /\ UNCHANGED <<pc, err>>
       ELSE /\ pc' = "exiting"
            /\ err' = "call_model"
            /\ UNCHANGED <<results_dict, saved, files>>
    /\ UNCHANGED <<cfg, i, processed_style, style_calls, style_ref_image, status,
                   attempt, refs, future, executor, queue, results>>
    /\ UNCHANGED <<cm, exported_prompts, imp, enh,
                   style_response, prompt>>

\* the loop has seen every future: the with block is left, the images are
\* appended in index order and generate returns
CollectDone ==
    /\ pc = "collect"
    /\ yielded = ParallelIndices(total)
    /\ ShutdownComplete(status, queue)
    /\ executor' = "closed"
    /\ results' = AppendInOrder(results, results_dict, total)
    /\ pc' = "returned"
    /\ UNCHANGED <<cfg, err, i, processed_style, style_calls, style_ref_image,
                   status, attempt, refs, future, queue, yielded, results_dict,
                   saved, files, cm, exported_prompts, imp, enh,
                   style_response, prompt>>

\* the exception of a failed job leaves the with block: the executor's exit
\* joins the pool, then generate raises
ExecutorExit ==
    /\ pc = "exiting"
    /\ ShutdownComplete(status, queue)
    /\ executor' = "closed"
    /\ pc' = "raised"
    /\ UNCHANGED <<cfg, err, i, processed_style, style_calls, style_ref_image,
                   status, attempt, refs, future, queue, yielded, results_dict,
                   results, saved, files, cm, exported_prompts, imp, enh,
                   style_response, prompt>>


(***************************************************************************)
(* _generate_slides_prompt_mode and the export variant of the backend      *)
(***************************************************************************)
\* Mutant of SlideNum: the slide number is the 0-based loop index.
SlideNumZeroBased(k) == k

\* slide_num=i + 1
SlideNum(k) == k + 1

\* _create_placeholder_image: a rendered PNG that shows the slide number
PlaceholderImage(slide_num) == <<0, slide_num>>

\* _save_reference_images: one ref_<position>_<id> file per reference image
\* that carries data
SavedReferenceFiles(slide_num, reference_images) ==
    { File("ref", Format02d(slide_num), reference_images[x].figure_id,
           IF reference_images[x].mime_type = "image/png" THEN ".png" ELSE ".jpg") :
        x \in { y \in 1 .. Len(reference_images) :
                  reference_images[y].base64 # B64Encode(<<>>) } }

\* saved_files, the names _save_reference_images returns, in list order
SavedRefNames(reference_images) ==
    LET with_data == SelectSeq(reference_images,
                               LAMBDA img : img.base64 # B64Encode(<<>>))
    IN [x \in 1 .. Len(with_data) |-> with_data[x].figure_id]

\* Mutant of ExportReferences: the reference chain of API mode is applied to
\* the export, the placeholder of slide 2 being handed on as the anchor of
\* the slides after it.
ExportReferencesChained(k, section_images) ==
    IF k >= 2
    THEN <<StyleRefImage(PlaceholderImage(2), "image/png")>> \o section_images
    ELSE section_images

\* reference_images=section_images: what _generate_slides_prompt_mode hands
\* to _export_prompt for slide index k
ExportReferences(k, section_images) == section_images

\* the operation of this slide's export that the file system refuses, if any
ExportFaultAt(c, slide_num) ==
    IF c.export_fault # <<>> /\ c.export_fault[1].slide = slide_num
    THEN c.export_fault[1].at ELSE "none"

\* one iteration of the export loop: _export_prompt writes the slide's
\* directory, its reference images and its prompt file, the placeholder is
\* recorded and saved; an operation the file system refuses raises out of
\* the loop and of generate, after what precedes it has been written
ExportSlide ==
    /\ pc = "export"
    /\ LET section == Sections(cfg)[i]
           section_images == _filter_images(cfg, {i}, _load_figure_images(cfg))
           reference_images == ExportReferences(i, section_images)
           slide_num == SlideNum(i)
           generated_img == GeneratedImage(section.id, PlaceholderImage(slide_num),
                                           "image/png")
           written == {File("dir", <<>>, "prompts", ""),
                       File("slide_dir", Format02d(slide_num), "slide_images", ""),
                       File("prompt", Format02d(slide_num), "slide_prompt", ".txt")}
                      \cup SavedReferenceFiles(slide_num, reference_images)
           fault == ExportFaultAt(cfg, slide_num)
           exported ==
               Append(exported_prompts,
                      [slide_num |-> slide_num, title |-> section.title,
                       prompt_file |-> File("prompt", Format02d(slide_num),
                                            "slide_prompt", ".txt"),
                       images_dir |-> File("slide_dir", Format02d(slide_num),
                                           "slide_images", ""),
                       reference_images |-> SavedRefNames(reference_images)])
       IN IF ~cfg.prompt_output_dir
          THEN /\ Raise("prompt_output_dir_not_set")
               /\ prompt' = [prompt EXCEPT ![i] = SlidePrompt(cfg, i, <<>>)]
               /\ UNCHANGED <<i, results, saved, files, exported_prompts>>
          ELSE /\ prompt' = [prompt EXCEPT ![i] =
                     SlidePrompt(cfg, i,
                                 IF fault = "slide_dir" THEN <<>>
                                 ELSE <<_build_reference_chain_instruction(slide_num, total)>>)]
               /\ CASE fault = "slide_dir" ->
                         /\ Raise("os_error")
                         /\ files' = files \cup {File("dir", <<>>, "prompts", "")}
                         /\ UNCHANGED <<i, results, saved, exported_prompts>>
                    [] fault = "prompt_file" ->
                         /\ Raise("os_error")
                         /\ files' = files \cup
                               (written \ {File("prompt", Format02d(slide_num),
                                                "slide_prompt", ".txt")})
                         /\ UNCHANGED <<i, results, saved, exported_prompts>>
                    [] fault = "save_callback" ->
                         /\ Raise("os_error")
                         /\ files' = files \cup written
                         /\ results' = Append(results, generated_img)
                         /\ exported_prompts' = exported
                         /\ UNCHANGED <<i, saved>>
                    [] OTHER ->
                         /\ results' = Append(results, generated_img)
                         /\ exported_prompts' = exported
                         /\ saved' = SavedAfter(cfg, saved, generated_img, i, total)
                         /\ files' = FilesAfterSave(cfg, files \cup written, generated_img)
                         /\ i' = i + 1
                         /\ pc' = AfterExport(i + 1, total)
                         /\ err' = err
    /\ UNCHANGED <<cfg, processed_style, style_calls, style_ref_image, status,
                   attempt, refs, future, executor, queue, yielded,
                   results_dict, cm, imp, enh, style_response>>

\* _generate_instructions_md, then the return of generate; opening the file
\* fails when nothing has created the prompt directory
GenerateInstructions ==
    /\ pc = "instructions"
    /\ IF ~cfg.prompt_output_dir
       THEN pc' = "returned" /\ UNCHANGED <<err, files>>
       ELSE IF cfg.prompts_dir_exists \/ File("dir", <<>>, "prompts", "") \in files
            THEN /\ files' = files \cup {File("instructions", <<>>, INSTRUCTIONS_FILENAME, "")}
                 /\ pc' = "returned"
                 /\ err' = err
            ELSE Raise("prompt_dir_missing") /\ UNCHANGED files
    /\ UNCHANGED <<cfg, i, processed_style, style_calls, style_ref_image, status,
                   attempt, refs, future, executor, queue, yielded,
                   results_dict, results, saved, cm, exported_prompts, imp, enh,
                   style_response, prompt>>

Next ==
    \/ Generate
    \/ PosterAttempt
    \/ SeqAttempt
    \/ PoolSubmit
    \/ WorkerStart
    \/ \E k \in Slots : WorkerAttempt(k)
    \/ \E k \in Slots : Collect(k)
    \/ CollectDone
    \/ ExecutorExit
    \/ ExportSlide
    \/ GenerateInstructions

Spec == Init /\ [][Next]_vars

(***************************************************************************)
(* One _call_model invocation on its own, against every kind of response   *)
(***************************************************************************)
Payloads == {<<>>, <<7>>, <<8>>}

AllResponses == FailureResponses \cup {ImageResponse(b, m) : b \in Payloads, m \in Mimes}

CallConfig ==
    [n |-> 0, output_type |-> "poster", mode |-> "api", style_name |-> "academic",
     custom_style |-> "", llm_client |-> FALSE, api_key |-> TRUE, save_callback |-> FALSE,
     max_workers |-> 1, prompt_output_dir |-> FALSE, prompts_dir_exists |-> FALSE,
     figs |-> {}, fig_file |-> "ok", second_fig |-> FALSE, types |-> "usual",
     export_fault |-> <<>>]

InitCall ==
    /\ cfg = CallConfig
    /\ pc = "call_model"
    /\ err = ""
    /\ i = 0
    /\ processed_style = <<>>
    /\ style_calls = 0
    /\ style_ref_image = <<>>
    /\ status = [k \in Slots |-> "idle"]
    /\ attempt = [k \in Slots |-> 0]
    /\ refs = [k \in Slots |-> <<>>]
    /\ future = [k \in Slots |-> <<>>]
    /\ executor = "none"
    /\ queue = <<>>
    /\ yielded = {}
    /\ results_dict = <<>>
    /\ results = <<>>
    /\ saved = <<>>
    /\ files = {}
    /\ cm = [IdleCall EXCEPT !.state = "running"]
    /\ exported_prompts = <<>>
    /\ style_response = <<>>
    /\ prompt = [k \in Slots |-> <<>>]
    /\ imp = IdleImport
    /\ enh = IdleEnhance

\* one pass through the retry loop of _call_model (lines 842-890)
CallModelAttempt ==
    /\ pc = "call_model"
    /\ cm.state = "running"
    /\ \E resp \in AllResponses :
         LET step == CallModelStep(cm.attempt, resp)
         IN cm' = [state |-> CASE step.outcome = "retry" -> "running"
                               [] step.outcome = "raise" -> "raised"
                               [] step.outcome = "return" -> "returned",
                   attempt |-> cm.attempt + 1,
                   log |-> Append(cm.log, resp),
                   sleeps |-> IF step.outcome = "retry"
                              THEN Append(cm.sleeps, step.sleep) ELSE cm.sleeps,
                   image_data |-> step.image_data,
                   mime_type |-> step.mime_type]
    /\ UNCHANGED <<cfg, pc, err, i, processed_style, style_calls, style_ref_image,
                   status, attempt, refs, future, executor, queue, yielded,
                   results_dict, results, saved, files, exported_prompts, imp, enh,
                   style_response, prompt>>

NextCall == CallModelAttempt

SpecCall == InitCall /\ [][NextCall]_vars

\* generate over the plans of ConfigsPlan
InitPlan ==
    /\ cfg \in ConfigsPlan
    /\ pc = "generate"
    /\ err = ""
    /\ i = 0
    /\ processed_style = <<>>
    /\ style_calls = 0
    /\ style_ref_image = <<>>
    /\ status = [k \in Slots |-> "idle"]
    /\ attempt = [k \in Slots |-> 0]
    /\ refs = [k \in Slots |-> <<>>]
    /\ future = [k \in Slots |-> <<>>]
    /\ executor = "none"
    /\ queue = <<>>
    /\ yielded = {}
    /\ results_dict = <<>>
    /\ results = <<>>
    /\ saved = <<>>
    /\ files = {}
    /\ cm = IdleCall
    /\ exported_prompts = <<>>
    /\ style_response = <<>>
    /\ prompt = [k \in Slots |-> <<>>]
    /\ imp = IdleImport
    /\ enh = IdleEnhance

SpecPlan == InitPlan /\ [][Next]_vars

\* generate in export mode over the runs of ConfigsExport
InitExport ==
    /\ cfg \in ConfigsExport
    /\ pc = "generate"
    /\ err = ""
    /\ i = 0
    /\ processed_style = <<>>
    /\ style_calls = 0
    /\ style_ref_image = <<>>
    /\ status = [k \in Slots |-> "idle"]
    /\ attempt = [k \in Slots |-> 0]
    /\ refs = [k \in Slots |-> <<>>]
    /\ future = [k \in Slots |-> <<>>]
    /\ executor = "none"
    /\ queue = <<>>
    /\ yielded = {}
    /\ results_dict = <<>>
    /\ results = <<>>
    /\ saved = <<>>
    /\ files = {}
    /\ cm = IdleCall
    /\ exported_prompts = <<>>
    /\ style_response = <<>>
    /\ prompt = [k \in Slots |-> <<>>]
    /\ imp = IdleImport
    /\ enh = IdleEnhance

NextExport == Generate \/ ExportSlide \/ GenerateInstructions

SpecExport == InitExport /\ [][NextExport]_vars

(***************************************************************************)
(* import_generated_images and the --import-images branch of main          *)
(***************************************************************************)
\* the variables import_generated_images does not touch
GenerateVars == <<cfg, pc, err, i, processed_style, style_calls, style_ref_image,
                  status, attempt, refs, future, executor, queue, yielded,
                  results_dict, results, saved, files, cm, exported_prompts,
                  style_response, prompt, enh>>

\* a slide directory slide_<digits>_images and the names of the files in it
SlideDir(digits, names) == [name |-> digits, files |-> names]

\* what a slide directory can hold: nothing, the canonical file, two of the
\* alternative names, or only an exported reference image
ImportDirContents ==
    { {}, {GENERATED_IMAGE_FILENAME}, {"slide.jpg", "output.png"},
      {"ref_1_figure.png"} }

\* the order of str on two directory names slide_<a>_images, slide_<b>_images:
\* the digits are compared one by one and the "_" that follows them sorts
\* above every digit
RECURSIVE StrLess(_, _)
StrLess(a, b) ==
    LET ka == IF a = <<>> THEN 10 ELSE Head(a)
        kb == IF b = <<>> THEN 10 ELSE Head(b)
    IN IF a = <<>> /\ b = <<>> THEN FALSE
       ELSE IF ka # kb THEN ka < kb
       ELSE StrLess(Tail(a), Tail(b))

\* Mutant of SortedDirs: the directories are taken in descending order.
RECURSIVE SortedDirsDescending(_)
SortedDirsDescending(names) ==
    IF names = {} THEN <<>>
    ELSE LET last == CHOOSE d \in names : \A e \in names \ {d} : StrLess(e, d)
         IN <<last>> \o SortedDirsDescending(names \ {last})

\* sorted(prompt_path.glob("slide_*_images"))
RECURSIVE SortedDirs(_)
SortedDirs(names) ==
    IF names = {} THEN <<>>
    ELSE LET first == CHOOSE d \in names : \A e \in names \ {d} : StrLess(d, e)
         IN <<first>> \o SortedDirs(names \ {first})

\* Mutant of ParseInt: only the first digit is read, so the slides 1 to 9
\* of a deck all get the number 0.
ParseIntFirstDigit(digits) == IF digits = <<>> THEN 0 ELSE digits[1]

\* int(dir_name.split("_")[1])
RECURSIVE ParseInt(_)
ParseInt(digits) ==
    IF digits = <<>> THEN 0
    ELSE 10 * ParseInt(SubSeq(digits, 1, Len(digits) - 1)) + digits[Len(digits)]

\* Mutant of FirstAlternative: the list is scanned from its end, so the last
\* existing alternative wins.
RECURSIVE LastAlternative(_, _)
LastAlternative(names, x) ==
    LET y == Len(IMPORT_ALTERNATIVE_FILENAMES) + 1 - x
    IN IF y < 1 THEN <<>>
       ELSE IF IMPORT_ALTERNATIVE_FILENAMES[y] \in names
            THEN <<IMPORT_ALTERNATIVE_FILENAMES[y]>>
            ELSE LastAlternative(names, x + 1)

\* for alt_name in IMPORT_ALTERNATIVE_FILENAMES: the first that exists, from
\* position x on
RECURSIVE FirstAlternative(_, _)
FirstAlternative(names, x) ==
    IF x > Len(IMPORT_ALTERNATIVE_FILENAMES) THEN <<>>
    ELSE IF IMPORT_ALTERNATIVE_FILENAMES[x] \in names
         THEN <<IMPORT_ALTERNATIVE_FILENAMES[x]>>
         ELSE FirstAlternative(names, x + 1)

\* Mutant of FindGenerated: only the canonical file name is looked for.
FindGeneratedCanonicalOnly(names) ==
    IF GENERATED_IMAGE_FILENAME \in names THEN <<GENERATED_IMAGE_FILENAME>> ELSE <<>>

\* the file imported from a slide directory: the canonical name if it exists,
\* else the first alternative name that exists, else none
FindGenerated(names) ==
    IF GENERATED_IMAGE_FILENAME \in names THEN <<GENERATED_IMAGE_FILENAME>>
    ELSE FirstAlternative(names, 1)

\* Mutant of ImportFails: an empty deck is saved like any other.
ImportNeverFails(imported_count) == FALSE

\* if imported_count == 0: raise ValueError
ImportFails(imported_count) == imported_count = 0

(***************************************************************************)
(* Speaker notes of the sidecar checkpoint_plan.json                       *)
(***************************************************************************)
\* A section of plan.sections: its id ("slide_" and digits, "slide_" and
\* something that is no number, or another id), title, content, the
\* speaker_notes_narrative key (<<>> when absent) and the speaker_notes key
\* (<<>> when absent, else a dict or, kind "text", a value that is no dict).
SidecarSection(id_kind, num, title, narrative, speaker_notes) ==
    [id_kind |-> id_kind, num |-> num, title |-> title, content |-> "Body",
     narrative |-> narrative, speaker_notes |-> speaker_notes]

NotesDict(talking_points, key_terms, transition, duration) ==
    [kind |-> "dict", talking_points |-> talking_points, key_terms |-> key_terms,
     transition |-> transition, duration |-> duration]

\* a line of note text: what it is and the strings put into it
Line(kind, value) == [line |-> kind, value |-> value]

\* the lines of the rendered structured notes (joined with "\n" in the code)
RenderNotes(title, notes_data) ==
    <<Line("heading", <<title>>), Line("key_points", <<>>)>>
    \o [x \in 1 .. Len(notes_data.talking_points) |->
           Line("point", <<notes_data.talking_points[x]>>)]
    \o <<Line("blank", <<>>)>>
    \o (IF notes_data.key_terms # <<>>
        THEN <<Line("emphasize", notes_data.key_terms), Line("blank", <<>>)>> ELSE <<>>)
    \o (IF notes_data.transition # ""
        THEN <<Line("transition", <<notes_data.transition>>), Line("blank", <<>>)>>
        ELSE <<>>)
    \o <<Line("duration", IF notes_data.duration = <<>> THEN <<"2">> ELSE notes_data.duration)>>

\* f"{title}\n\n{content}" if title else content
FallbackNotes(title, content) ==
    IF title # ""
    THEN <<Line("text", <<title>>), Line("blank", <<>>), Line("text", <<content>>)>>
    ELSE <<Line("text", <<content>>)>>

\* Mutant of NotesText: the structured notes are preferred to the narrative.
NotesTextStructuredFirst(section) ==
    IF /\ section.speaker_notes # <<>> /\ section.speaker_notes[1].kind = "dict"
       /\ section.speaker_notes[1].talking_points # <<>>
    THEN RenderNotes(section.title, section.speaker_notes[1])
    ELSE IF section.narrative # <<>> THEN <<Line("narrative", section.narrative)>>
    ELSE FallbackNotes(section.title, section.content)

\* notes_text of one section whose speaker_notes, if any, is a dict
NotesText(section) ==
    IF section.narrative # <<>> THEN <<Line("narrative", section.narrative)>>
    ELSE IF section.speaker_notes # <<>> /\ section.speaker_notes[1].talking_points # <<>>
         THEN RenderNotes(section.title, section.speaker_notes[1])
         ELSE FallbackNotes(section.title, section.content)

\* the section makes the loop raise: int() of an id that is no number, or
\* .get of a speaker_notes value that is no dict (read only when there is no
\* narrative)
SectionRaises(section) ==
    \/ section.id_kind = "bad_number"
    \/ /\ section.id_kind = "slide" /\ section.narrative = <<>>
       /\ section.speaker_notes # <<>> /\ section.speaker_notes[1].kind # "dict"

\* Mutant of LoadNotesFrom: the try is inside the loop, so a section that
\* raises is passed over and the sections after it are still read.
RECURSIVE LoadNotesSkipFailed(_, _, _)
LoadNotesSkipFailed(sections, x, speaker_notes) ==
    IF x > Len(sections) THEN speaker_notes
    ELSE LET section == sections[x]
         IN IF section.id_kind = "other" \/ SectionRaises(section)
            THEN LoadNotesSkipFailed(sections, x + 1, speaker_notes)
            ELSE LET slide_num == ParseInt(section.num)
                 IN LoadNotesSkipFailed(sections, x + 1,
                        [n \in (DOMAIN speaker_notes) \cup {slide_num} |->
                            IF n = slide_num THEN NotesText(section) ELSE speaker_notes[n]])

\* `for section in sections` inside the try: an id without the slide_ prefix
\* is passed over, an exception ends the loop with the notes stored so far
RECURSIVE LoadNotesFrom(_, _, _)
LoadNotesFrom(sections, x, speaker_notes) ==
    IF x > Len(sections) THEN speaker_notes
    ELSE LET section == sections[x]
         IN IF section.id_kind = "other" THEN LoadNotesFrom(sections, x + 1, speaker_notes)
            ELSE IF SectionRaises(section) THEN speaker_notes
            ELSE LET slide_num == ParseInt(section.num)
                 IN LoadNotesFrom(sections, x + 1,
                        [n \in (DOMAIN speaker_notes) \cup {slide_num} |->
                            IF n = slide_num THEN NotesText(section) ELSE speaker_notes[n]])

\* speaker_notes after the sidecar has been looked for and read
LoadSpeakerNotes(sidecar) ==
    IF sidecar.state = "ok" THEN LoadNotesFrom(sidecar.sections, 1, <<>>) ELSE <<>>

DirFiles(disk, digits) == (CHOOSE d \in disk : d.name = digits).files

\* main calls import_generated_images, which lists and sorts the slide
\* directories and raises when there is none
ImportStart ==
    /\ imp.pc = "start"
    /\ LET slide_dirs == SortedDirs({d.name : d \in imp.disk})
       IN IF slide_dirs = <<>>
          THEN imp' = [imp EXCEPT !.pc = "raised", !.err = "no_slide_dirs",
                                  !.main = "import_failed"]
          ELSE imp' = [imp EXCEPT !.pc = "loop", !.slide_dirs = slide_dirs, !.k = 1,
                                  !.speaker_notes = LoadSpeakerNotes(imp.sidecar)]
    /\ UNCHANGED GenerateVars

\* one iteration of `for slide_dir in slide_dirs`
ImportSlideDir ==
    /\ imp.pc = "loop"
    /\ LET dir_name == imp.slide_dirs[imp.k]
           slide_num == ParseInt(dir_name)
           generated_img == FindGenerated(DirFiles(imp.disk, dir_name))
           after == IF imp.k = Len(imp.slide_dirs) THEN "finish" ELSE "loop"
       IN IF generated_img = <<>>
          THEN imp' = [imp EXCEPT !.missing_slides = Append(@, slide_num),
                                  !.k = @ + 1, !.pc = after]
          ELSE imp' = [imp EXCEPT
                         !.deck = Append(@, [slide_num |-> slide_num,
                                             dir |-> dir_name,
                                             image |-> generated_img[1],
                                             notes |-> IF slide_num \in DOMAIN imp.speaker_notes
                                                       THEN <<imp.speaker_notes[slide_num]>>
                                                       ELSE <<>>]),
                         !.imported_count = @ + 1,
                         !.k = @ + 1, !.pc = after]
    /\ UNCHANGED GenerateVars

\* after the loop: raise on an empty deck, else save it and return the
\* missing list, which main reports
ImportFinish ==
    /\ imp.pc = "finish"
    /\ IF ImportFails(imp.imported_count)
       THEN imp' = [imp EXCEPT !.pc = "raised", !.err = "no_generated_images",
                               !.main = "import_failed"]
       ELSE imp' = [imp EXCEPT !.pc = "returned", !.saved_deck = <<imp.deck>>,
                               !.main = IF imp.missing_slides # <<>>
                                        THEN "missing_slides" ELSE "created"]
    /\ UNCHANGED GenerateVars

\* every prompt directory main can be pointed at: any set of slide
\* directories slide_01_images .. slide_<max_slides>_images with any of
\* the contents
ManySlideDirs(max_slides) ==
    UNION { { {SlideDir(Format02d(n), content[n]) : n \in nums} :
                content \in [nums -> ImportDirContents] } :
            nums \in SUBSET (1 .. max_slides) }

\* the file names a slide directory is probed for, and an exported reference
ImportFileNames ==
    {GENERATED_IMAGE_FILENAME, "ref_1_figure.png"}
    \cup {IMPORT_ALTERNATIVE_FILENAMES[x] : x \in 1 .. Len(IMPORT_ALTERNATIVE_FILENAMES)}

\* a prompt directory with the one directory slide_01_images, holding any
\* combination of those files
OneSlideDir == { {SlideDir(Format02d(1), names)} : names \in SUBSET ImportFileNames }

ImportDisks(max_slides) == ManySlideDirs(max_slides) \cup OneSlideDir

\* the speaker_notes values of a sidecar section: absent, an empty dict, a
\* dict without talking points, two dicts with talking points, a string
SpeakerNotesValues ==
    { <<>>,
      <<NotesDict(<<>>, <<>>, "", <<>>)>>,
      <<NotesDict(<<>>, <<"term">>, "next", <<"3">>)>>,
      <<NotesDict(<<"point 1", "point 2">>, <<"term">>, "next", <<"3">>)>>,
      <<NotesDict(<<"point 1">>, <<>>, "", <<>>)>>,
      <<[kind |-> "text"]>> }

\* the sections a sidecar can have for slide number n
SidecarSections(n) ==
    { SidecarSection(id_kind, Format02d(n), title, narrative, speaker_notes) :
        id_kind \in {"slide"}, title \in {"", "Title"},
        narrative \in {<<>>, <<"narrative">>},
        speaker_notes \in SpeakerNotesValues }
    \cup { SidecarSection(id_kind, Format02d(n), "Title", <<"narrative">>, <<>>) :
             id_kind \in {"other", "bad_number"} }

\* two slide directories, the second with or without its image, next to a
\* sidecar that is unreadable or has a section for each of the two slides
NotedImports ==
    { [disk |-> {SlideDir(Format02d(1), {GENERATED_IMAGE_FILENAME}),
                 SlideDir(Format02d(2), second)},
       sidecar |-> sidecar] :
        second \in {{}, {"slide.png"}},
        sidecar \in {[state |-> "unreadable", sections |-> <<>>]}
                    \cup { [state |-> "ok", sections |-> <<s1, s2>>] :
                             s1 \in SidecarSections(1), s2 \in SidecarSections(2) } }

ImportInputs(max_slides) ==
    { [disk |-> disk, sidecar |-> [state |-> "absent", sections |-> <<>>]] :
        disk \in ImportDisks(max_slides) }
    \cup NotedImports

\* the state in which main calls import_generated_images on one of the
\* given prompt directories
ImportCalledOn(inputs) ==
    /\ cfg = CallConfig
    /\ pc = "import"
    /\ err = ""
    /\ i = 0
    /\ processed_style = <<>>
    /\ style_calls = 0
    /\ style_ref_image = <<>>
    /\ status = [k \in Slots |-> "idle"]
    /\ attempt = [k \in Slots |-> 0]
    /\ refs = [k \in Slots |-> <<>>]
    /\ future = [k \in Slots |-> <<>>]
    /\ executor = "none"
    /\ queue = <<>>
    /\ yielded = {}
    /\ results_dict = <<>>
    /\ results = <<>>
    /\ saved = <<>>
    /\ files = {}
    /\ cm = IdleCall
    /\ exported_prompts = <<>>
    /\ style_response = <<>>
    /\ prompt = [k \in Slots |-> <<>>]
    /\ enh = IdleEnhance
    /\ \E input \in inputs :
          imp = [IdleImport EXCEPT !.pc = "start", !.disk = input.disk,
                                   !.sidecar = input.sidecar]

InitImport == ImportCalledOn(ImportInputs(MaxImportSlides))

NextImport == ImportStart \/ ImportSlideDir \/ ImportFinish

SpecImport == InitImport /\ [][NextImport]_vars

\* the slide numbers of decks of more than 99 slides that the import is
\* followed on: SLIDE_DIR_TEMPLATE pads to two digits, so slide 100 is
\* exported to slide_100_images
LongDeckNumbers == {9, 10, 99, 100, 101}

\* prompt directories of such decks: any of these slide directories, each
\* with or without its generated image, and no sidecar
LongDeckImports ==
    UNION { { [disk |-> {SlideDir(Format02d(n), content[n]) : n \in nums},
               sidecar |-> [state |-> "absent", sections |-> <<>>]] :
                content \in [nums -> {{}, {GENERATED_IMAGE_FILENAME}}] } :
            nums \in SUBSET LongDeckNumbers }

InitImportLong == ImportCalledOn(LongDeckImports)

SpecImportLong == InitImportLong /\ [][NextImport]_vars

(***************************************************************************)
(* Export, manual fill-in, import                                          *)
(***************************************************************************)
\* the user follows INSTRUCTIONS.md: an image is generated for every
\* exported slide and saved under the canonical name in its directory, next
\* to the reference images exported there; then --import-images is run on
\* the prompt directory
HumanFill ==
    /\ pc = "returned"
    /\ imp.pc = "idle"
    /\ imp' = [imp EXCEPT
                 !.pc = "start",
                 !.disk = { SlideDir(d.slide,
                                     {GENERATED_IMAGE_FILENAME} \cup
                                     (IF \E f \in files : f.kind = "ref" /\ f.slide = d.slide
                                      THEN {"ref_1_figure.png"} ELSE {})) :
                            d \in {f \in files : f.kind = "slide_dir"} }]
    /\ UNCHANGED GenerateVars

InitRoundTrip ==
    /\ Init
    /\ cfg.mode = "prompt" /\ cfg.output_type = "slides" /\ cfg.prompt_output_dir

NextRoundTrip ==
    \/ Generate
    \/ ExportSlide
    \/ GenerateInstructions
    \/ HumanFill
    \/ ImportStart
    \/ ImportSlideDir
    \/ ImportFinish

SpecRoundTrip == InitRoundTrip /\ [][NextRoundTrip]_vars

(***************************************************************************)
(* enhance_speaker_notes and the --enhance-speaker-notes branch of main     *)
(***************************************************************************)
\* the variables enhance_speaker_notes does not touch
EnhanceFrame == <<cfg, pc, err, i, processed_style, style_calls, style_ref_image,
                  status, attempt, refs, future, executor, queue, yielded,
                  results_dict, results, saved, files, cm, exported_prompts,
                  style_response, prompt, imp>>

\* the speaker_notes values of a checkpoint section: absent, a dict without
\* talking points, a dict with talking points, a dict with talking points
\* whose key_terms is null, a string
EnhanceNotesValues ==
    { <<>>,
      <<NotesDict(<<>>, <<"term">>, "next", <<"3">>)>>,
      <<NotesDict(<<"point 1", "point 2">>, <<"term">>, "next", <<"3">>)>>,
      <<[NotesDict(<<"point 1">>, <<>>, "", <<>>) EXCEPT !.kind = "dict_null_terms"]>>,
      <<[kind |-> "text"]>> }

\* the plan.sections of the checkpoint files the command is run on: up to
\* max_sections sections, some of them already carrying a narrative
CheckpointSections(max_sections) ==
    UNION { { [x \in 1 .. n |->
                 SidecarSection("slide", Format02d(x), "Title",
                                choice[x].narrative, choice[x].speaker_notes)] :
              choice \in [1 .. n -> [narrative : {<<>>, <<"old narrative">>},
                                     speaker_notes : EnhanceNotesValues]] } :
            n \in 0 .. max_sections }

\* save_json(checkpoint_file, checkpoint_data): the file holds the document
save_json(file, data) == data

\* what invoke_style_replicator can do: return the narrative, or raise (no
\* RAG_LLM_API_KEY, a failed request)
ReplicatorReplies == {"text", "raises"}

\* speaker_notes.get("talking_points") on a value that is no dict raises
\* AttributeError
NotesGetRaises(section) ==
    section.speaker_notes # <<>> /\ section.speaker_notes[1].kind = "text"

\* not speaker_notes or not speaker_notes.get("talking_points")
NoStructuredNotes(section) ==
    \/ section.speaker_notes = <<>>
    \/ section.speaker_notes[1].talking_points = <<>>

\* building structured_text raises: ', '.join(key_terms) of a null key_terms
StructuredTextRaises(section) ==
    section.speaker_notes[1].kind = "dict_null_terms"

\* _fallback_narrative: the title, the talking points, the key terms and the
\* transition if any, the duration
_fallback_narrative(title, notes_data) ==
    <<title>> \o notes_data.talking_points \o notes_data.key_terms
    \o (IF notes_data.transition # "" THEN <<notes_data.transition>> ELSE <<>>)
    \o (IF notes_data.duration = <<>> THEN <<"2">> ELSE notes_data.duration)

\* _transform_to_narrative once structured_text is built: the agent's text,
\* or the fallback when the agent raises
_transform_to_narrative(section, reply) ==
    IF reply = "text" THEN <<"agent narrative", section.title>>
    ELSE _fallback_narrative(section.title, section.speaker_notes[1])

\* the checkpoint is loaded and checked
EnhanceStart ==
    /\ enh.pc = "start"
    /\ IF enh.doc = "no_plan"
       THEN enh' = [enh EXCEPT !.pc = "raised", !.err = "invalid_checkpoint"]
       ELSE IF enh.sections = <<>>
            THEN enh' = [enh EXCEPT !.pc = "returned", !.result = <<0>>]
            ELSE enh' = [enh EXCEPT !.pc = "loop", !.idx = 1]
    /\ UNCHANGED EnhanceFrame

\* one iteration of `for idx, section in enumerate(sections, 1)`: the notes
\* are read before the try, so an exception of that read leaves
\* enhance_speaker_notes, while an exception of the transformation is logged
\* and the loop goes on
EnhanceSection ==
    /\ enh.pc = "loop"
    /\ LET section == enh.sections[enh.idx]
           after == IF enh.idx = Len(enh.sections) THEN "save" ELSE "loop"
       IN IF NotesGetRaises(section)
          THEN enh' = [enh EXCEPT !.pc = "raised", !.err = "attribute_error"]
          ELSE IF NoStructuredNotes(section) \/ StructuredTextRaises(section)
               THEN enh' = [enh EXCEPT !.idx = @ + 1, !.pc = after]
               ELSE \E reply \in ReplicatorReplies :
                       enh' = [enh EXCEPT
                                 !.sections[enh.idx].narrative =
                                     <<_transform_to_narrative(section, reply)>>,
                                 !.enhanced_count = @ + 1,
                                 !.idx = @ + 1, !.pc = after]
    /\ UNCHANGED EnhanceFrame

\* after the loop: the checkpoint is saved if a section was enhanced, and
\* the count is returned
EnhanceFinish ==
    /\ enh.pc = "save"
    /\ enh' = [enh EXCEPT
                 !.file = IF enh.enhanced_count > 0 THEN save_json(@, enh.sections) ELSE @,
                 !.saves = IF enh.enhanced_count > 0 THEN @ + 1 ELSE @,
                 !.result = <<enh.enhanced_count>>,
                 !.pc = "returned"]
    /\ UNCHANGED EnhanceFrame

InitEnhance ==
    /\ cfg = CallConfig
    /\ pc = "enhance"
    /\ err = ""
    /\ i = 0
    /\ processed_style = <<>>
    /\ style_calls = 0
    /\ style_ref_image = <<>>
    /\ status = [k \in Slots |-> "idle"]
    /\ attempt = [k \in Slots |-> 0]
    /\ refs = [k \in Slots |-> <<>>]
    /\ future = [k \in Slots |-> <<>>]
    /\ executor = "none"
    /\ queue = <<>>
    /\ yielded = {}
    /\ results_dict = <<>>
    /\ results = <<>>
    /\ saved = <<>>
    /\ files = {}
    /\ cm = IdleCall
    /\ exported_prompts = <<>>
    /\ style_response = <<>>
    /\ prompt = [k \in Slots |-> <<>>]
    /\ imp = IdleImport
    /\ \/ \E sections \in CheckpointSections(MaxEnhanceSections) :
             enh = [IdleEnhance EXCEPT !.pc = "start", !.input = sections,
                                      !.file = sections, !.sections = sections]
       \/ enh = [IdleEnhance EXCEPT !.pc = "start", !.doc = "no_plan"]

NextEnhance == EnhanceStart \/ EnhanceSection \/ EnhanceFinish

SpecEnhance == InitEnhance /\ [][NextEnhance]_vars


(***************************************************************************)
(* Properties                                                              *)
(***************************************************************************)
Finished == pc \in {"returned", "raised"}

ApiSlides == cfg.output_type = "slides" /\ cfg.mode = "api"

PosterExport == cfg.output_type = "poster" /\ cfg.mode = "prompt"

\* the backend call of slide index k has started
Started(k) == attempt[k] > 0 \/ status[k] = "running"

SavedCount(k) == Cardinality({x \in 1 .. Len(saved) : saved[x].index = k})

\* C1: in API slide mode, when every job succeeds generate does not raise
\* (the custom style, if any, having been resolved), and what it returns has one image per section, the image at position k
\* being the one generated for plan.sections[k] and carrying its id,
\* whatever the worker count and the order in which the jobs completed.
C1_OutputOrderIsSectionOrder ==
    ApiSlides =>
        /\ (/\ err \notin {"no_style_client", "invalid_custom_style"}
            /\ \A k \in 0 .. (total - 1) : status[k] = "ok") =>
              pc \notin {"raised", "exiting"}
        /\ pc = "returned" =>
              /\ Len(results) = total
              /\ \A k \in 0 .. (total - 1) :
                    /\ results[k + 1].section_id = Sections(cfg)[k].id
                    /\ results[k + 1] = future[k][1]

\* reached: a returned batch of at least four slides whose last job
\* completed, and was recorded, before the job of slide index 2
C1_Witness ==
    /\ ApiSlides /\ pc = "returned" /\ total >= 4 /\ cfg.max_workers >= 2
    /\ results_dict[1].idx = total - 1
    /\ results_dict[Len(results_dict)].idx = 2

\* C2: in API slide mode, the reference list of every started backend call
\* of index >= 2 holds the "Reference Slide" image built from the output of
\* slide index 1, and the reference list of the calls of index 0 and 1
\* holds no "Reference Slide" image.
C2_AnchorOnLaterSlidesOnly ==
    ApiSlides =>
        \A k \in 0 .. (total - 1) :
            Started(k) =>
                IF k >= 2
                THEN /\ future[1] # <<>>
                     /\ \E x \in 1 .. Len(refs[k]) :
                           /\ refs[k][x].figure_id = "Reference Slide"
                           /\ refs[k][x].base64 = B64Encode(future[1][1].image_data)
                           /\ refs[k][x].mime_type = future[1][1].mime_type
                ELSE \A x \in 1 .. Len(refs[k]) : refs[k][x].figure_id # "Reference Slide"

\* reached: slide index 2 generated with the anchor and its own figure while
\* slide index 3 is being generated, slides 0 and 1 having made their calls
C2_Witness ==
    /\ ApiSlides /\ total >= 4
    /\ status[2] = "ok" /\ Len(refs[2]) = 2
    /\ status[3] = "running" /\ Len(refs[3]) = 1
    /\ Len(refs[0]) = 1 /\ refs[1] = <<>>

\* C3: in API slide mode the call for index 1 has started only if the call
\* for index 0 has returned, and a call for an index >= 2 has started (or
\* is queued) only if the call for index 1 has returned and the anchor is
\* captured from its result.
C3_SequentialBeforePool ==
    ApiSlides =>
        /\ Started(1) => status[0] = "ok"
        /\ \A k \in ParallelIndices(total) :
              (Started(k) \/ status[k] = "queued") =>
                  /\ status[0] = "ok" /\ status[1] = "ok"
                  /\ style_ref_image # <<>>
                  /\ style_ref_image[1].base64 = B64Encode(future[1][1].image_data)

\* reached: two parallel jobs in flight at once
C3_Witness ==
    /\ ApiSlides /\ total >= 4
    /\ status[2] = "running" /\ status[3] = "running"
    /\ attempt[2] > 0 /\ attempt[3] > 0

\* C4: when a parallel-phase job has failed terminally (and the sequential
\* phase succeeded), generation ends by handing the caller the images of
\* all slides that succeeded.
C4_PartialResultSurfaced ==
    (/\ ApiSlides /\ Finished
     /\ \E k \in ParallelIndices(total) : status[k] = "failed") =>
        /\ pc = "returned"
        /\ \A k \in 0 .. (total - 1) :
              status[k] = "ok" => \E x \in 1 .. Len(results) : results[x] = future[k][1]

\* C5: generate neither returns nor raises while a job submitted to the pool
\* is still queued or running: when a parallel job has failed, every other
\* submitted job has made its backend call and completed (none is cancelled),
\* and while the pool is open the run is never stuck.
C5_SiblingsRunToCompletion ==
    ApiSlides =>
        /\ (Finished /\ executor # "none") =>
              \A k \in ParallelIndices(total) :
                  status[k] \in {"ok", "failed"} /\ attempt[k] >= 1
        /\ pc \in {"collect", "exiting"} => ENABLED Next

\* reached: with one worker, generate has raised for the failure of slide
\* index 2 and slide index 3, which was still queued when it failed, has
\* been generated all the same
C5_Witness ==
    /\ ApiSlides /\ pc = "raised" /\ cfg.max_workers = 1 /\ total >= 4
    /\ status[2] = "failed" /\ status[3] = "ok" /\ future[3] # <<>>

\* C6: when slide generation has returned or raised (a save_callback being
\* given), every job whose backend call succeeded has been passed to
\* save_callback exactly once, with its slide index and section id.
C6_EverySuccessSavedOnce ==
    (cfg.output_type = "slides" /\ cfg.save_callback /\ Finished) =>
        \A k \in 0 .. (total - 1) :
            status[k] = "ok" =>
                /\ SavedCount(k) = 1
                /\ \A x \in 1 .. Len(saved) :
                      saved[x].index = k => saved[x].section_id = Sections(cfg)[k].id

\* C7: in API slide mode, once the call for index 0 or 1 has failed
\* terminally generate has raised, no backend request was made for any
\* later index and no worker pool was created.
C7_SequentialFailureAbortsBatch ==
    ApiSlides =>
        \A k \in {0, 1} :
            (k < total /\ status[k] = "failed") =>
                /\ pc = "raised"
                /\ executor = "none" /\ queue = <<>>
                /\ \A j \in (k + 1) .. (total - 1) : attempt[j] = 0 /\ status[j] = "idle"

\* reached: slide index 1 failed after its three attempts in a batch that
\* has slides for the pool
C7_Witness ==
    /\ ApiSlides /\ total >= 3
    /\ status[0] = "ok" /\ status[1] = "failed" /\ attempt[1] = 3

Malformed(resp) == resp.kind \in {"none", "no_choices", "no_images"}

\* C8: one _call_model invocation that got three malformed responses in a
\* row has raised and carries no image; one whose first one or two
\* responses were malformed and whose next response carried an image has
\* returned, after that response, the decoded bytes and the MIME type of
\* that image.
C8_RetryOutcome ==
    /\ (Len(cm.log) >= 3 /\ \A x \in 1 .. 3 : Malformed(cm.log[x])) =>
          cm.state = "raised" /\ Len(cm.log) = 3 /\ cm.image_data = <<>>
    /\ \A n \in 2 .. 3 :
          (/\ Len(cm.log) >= n
           /\ \A x \in 1 .. (n - 1) : Malformed(cm.log[x])
           /\ cm.log[n].kind = "data") =>
              /\ cm.state = "returned" /\ Len(cm.log) = n
              /\ cm.image_data = B64Decode(cm.log[n].payload)
              /\ cm.mime_type = cm.log[n].mime

\* reached: two malformed responses, then an image
C8_Witness ==
    /\ cm.state = "returned" /\ Len(cm.log) = 3
    /\ cm.log[1].kind = "none" /\ cm.log[2].kind = "no_images"
    /\ cm.image_data = <<7>> /\ cm.mime_type = "image/jpeg"

\* C9: with a poster plan in prompt (export) mode generate raises, and when
\* it has raised no file has been written and save_callback has not been
\* invoked.
C9_PosterExportWritesNothing ==
    (PosterExport /\ pc # "generate") =>
        /\ pc = "raised"
        /\ files = {}
        /\ saved = <<>>

\* reached: the poster/export combination refused, with a callback given
C9_Witness ==
    /\ PosterExport /\ pc = "raised" /\ err = "poster_in_prompt_mode"
    /\ cfg.save_callback /\ cfg.prompt_output_dir /\ total >= 1

\* C10: with a poster plan in export mode, when generate has raised no
\* external call has been made: no style-resolution request and no
\* generation request, for every style configuration.
C10_PosterExportFailsBeforeAnyCall ==
    (PosterExport /\ pc = "raised") =>
        /\ style_calls = 0
        /\ \A k \in Slots : attempt[k] = 0


NoGenerationRequest == \A k \in Slots : attempt[k] = 0

NothingExported == \A f \in files : f.kind \notin {"prompt", "slide_dir", "ref", "instructions"}

\* C11: once the style resolver has answered a custom style with valid =
\* false, generate has raised, with no backend generation request made, no
\* prompt exported and save_callback never invoked.
C11_InvalidStyleFailsBatch ==
    (processed_style # <<>> /\ ~processed_style[1].valid) =>
        /\ pc = "raised"
        /\ NoGenerationRequest
        /\ NothingExported
        /\ saved = <<>> /\ results = <<>>

\* reached: a slide plan in export mode whose custom style the resolver
\* answered, and rejected
C11_Witness ==
    /\ processed_style # <<>> /\ ~processed_style[1].valid
    /\ processed_style[1].error = <<"rejected">>
    /\ cfg.mode = "prompt" /\ cfg.output_type = "slides" /\ total >= 2
    /\ cfg.prompt_output_dir /\ cfg.save_callback

\* the configuration errors of a run: no image-generation credentials in API
\* mode, a custom style resolved as invalid, poster output in prompt mode
ConfigurationError ==
    \/ cfg.mode = "api" /\ ~cfg.api_key
    \/ processed_style # <<>> /\ ~processed_style[1].valid
    \/ PosterExport

\* C12: a run with a configuration error (missing image-generation
\* credentials, invalid style, unsupported mode/output combination) never
\* issues a backend generation request.
C12_ConfigErrorBeforeAnyGenerationCall ==
    ConfigurationError => NoGenerationRequest

SlidesExport == cfg.output_type = "slides" /\ cfg.mode = "prompt"

StyleResolved == err \notin {"no_style_client", "invalid_custom_style"}

\* the two decimal digits of a slide number below 100, as they appear in
\* slide_01 .. slide_99
TwoDigits(n) == <<n \div 10, n % 10>>

FilesOfKind(kind) == {f \in files : f.kind = kind}

\* C13: export mode over a slide plan of N >= 1 sections with
\* prompt_output_dir set (the style having been resolved) returns, and when
\* it has finished there are exactly the N prompt files
\* slide_01..slide_NN_prompt.txt, exactly the N directories
\* slide_01..slide_NN_images, exactly one instructions document, and the
\* result is N placeholder images, the k-th for the k-th section.
C13_ExportProducesNPromptsAndDirs ==
    (SlidesExport /\ total >= 1 /\ cfg.prompt_output_dir /\ Finished /\ StyleResolved) =>
        /\ pc = "returned"
        /\ FilesOfKind("prompt") =
              {File("prompt", TwoDigits(n), "slide_prompt", ".txt") : n \in 1 .. total}
        /\ Cardinality(FilesOfKind("prompt")) = total
        /\ FilesOfKind("slide_dir") =
              {File("slide_dir", TwoDigits(n), "slide_images", "") : n \in 1 .. total}
        /\ Cardinality(FilesOfKind("slide_dir")) = total
        /\ FilesOfKind("instructions") =
              {File("instructions", <<>>, INSTRUCTIONS_FILENAME, "")}
        /\ Len(results) = total
        /\ \A n \in 1 .. total :
              /\ results[n].section_id = Sections(cfg)[n - 1].id
              /\ results[n].image_data = PlaceholderImage(n)

\* reached: a finished export of a full-size deck into a directory that did
\* not exist before
C13_Witness ==
    /\ SlidesExport /\ total = MaxSections /\ cfg.prompt_output_dir
    /\ ~cfg.prompts_dir_exists
    /\ pc = "returned" /\ Len(results) = MaxSections

\* C17: the anchor cell changes only in the step in which the backend call
\* of slide index 1 returns, from unset to the image that call returned; it
\* is set from that step on, so it is written once per batch and never
\* modified afterwards; with fewer than 2 slides it is never written.
C17_AnchorWrittenOnce ==
    /\ [](ApiSlides =>
            /\ (style_ref_image # <<>>) <=> (status[1] = "ok")
            /\ (total < 2) => style_ref_image = <<>>
            /\ (style_ref_image # <<>>) =>
                  style_ref_image =
                    <<StyleRefImage(future[1][1].image_data, future[1][1].mime_type)>>)
    /\ [][style_ref_image' # style_ref_image =>
            /\ style_ref_image = <<>>
            /\ pc = "seq" /\ i = 1
            /\ status[1] # "ok" /\ status'[1] = "ok"]_vars

\* reached: the anchor captured from slide index 1 and still in place while
\* the pool is generating later slides
C17_Witness ==
    /\ ApiSlides /\ total >= 4
    /\ style_ref_image # <<>>
    /\ status[2] = "ok" /\ status[3] = "running"

\* the number of occurrences of k in the pool's queue
QueuedCount(k) == Cardinality({x \in 1 .. Len(queue) : queue[x] = k})

\* C18: at every moment the number of backend generation calls in flight is
\* at most max_workers, and once the pool is filled every slide index in
\* 2..N-1 has been submitted exactly once (it is queued once or has been
\* taken by a worker, never both) and no other index has been submitted.
C18_BoundedPoolSubmitsEachOnce ==
    ApiSlides =>
        /\ Cardinality(Running) <= cfg.max_workers
        /\ executor # "none" =>
              /\ \A k \in 2 .. (total - 1) :
                    \/ QueuedCount(k) = 1 /\ status[k] = "queued"
                    \/ QueuedCount(k) = 0 /\ status[k] \in {"running", "ok", "failed"}
              /\ \A x \in 1 .. Len(queue) : queue[x] \in 2 .. (total - 1)
        /\ executor = "none" => queue = <<>>

\* reached: a one-worker pool with a call in flight, at its second request,
\* and another slide waiting in the queue
C18_Witness ==
    /\ ApiSlides /\ cfg.max_workers = 1 /\ total = 4
    /\ executor = "open"
    /\ status[2] = "running" /\ attempt[2] = 2
    /\ status[3] = "queued" /\ queue = <<3>>

\* C19: one _call_model invocation issues at most 3 requests; the waits it
\* has made are 2 s after the first failed attempt and 4 s after the second,
\* one wait per failed attempt that is followed by another attempt, and
\* none after the third failed attempt, which raises.
C19_LinearBackoff ==
    /\ cm.attempt <= 3
    /\ Len(cm.log) = cm.attempt
    /\ \A x \in 1 .. Len(cm.sleeps) : cm.sleeps[x] = 2 * x
    /\ Len(cm.sleeps) =
          Cardinality({x \in 1 .. Len(cm.log) : cm.log[x].kind # "data" /\ x < 3})
    /\ (cm.state = "raised") => (cm.attempt = 3 /\ cm.sleeps = <<2, 4>>)

\* reached: three failed attempts, raised after waits of 2 s and 4 s
C19_Witness ==
    /\ cm.state = "raised" /\ cm.attempt = 3 /\ cm.sleeps = <<2, 4>>
    /\ cm.log[3].kind = "exception"

\* C20: in export mode no request is sent to the image generation service,
\* and (slide plan, prompt_output_dir set) the k-th returned image is the
\* placeholder of slide k, whose prompt file and whose reference images
\* (the section's figures that carry data) have been written.
C20_ExportNeverCallsBackend ==
    cfg.mode = "prompt" =>
        /\ NoGenerationRequest
        /\ \A k \in Slots : status[k] = "idle"
        /\ style_ref_image = <<>>
        /\ \A n \in 1 .. Len(results) :
              /\ results[n].image_data = PlaceholderImage(n)
              /\ results[n].mime_type = "image/png"
              /\ File("prompt", TwoDigits(n), "slide_prompt", ".txt") \in files
              /\ SavedReferenceFiles(n, _filter_images(cfg, {n - 1},
                                                       _load_figure_images(cfg)))
                    \subseteq files

\* reached: an export that has written the reference image of its third
\* slide and returned the placeholders of three slides
C20_Witness ==
    /\ SlidesExport /\ cfg.prompt_output_dir /\ total >= 3
    /\ Len(results) >= 3
    /\ \E f \in files : f.kind = "ref" /\ f.slide = TwoDigits(3)

ImportDone == imp.pc \in {"returned", "raised"} /\ imp.err # "no_slide_dirs"

\* the file names import accepts as a slide's generated image
AcceptedNames ==
    {"generated.png", "generated.jpg", "generated.jpeg", "slide.png", "slide.jpg",
     "output.png"}

\* the slide numbers of the directories that hold none of the accepted names
SlidesWithoutImage ==
    {ParseInt(d.name) : d \in {e \in imp.disk : e.files \cap AcceptedNames = {}}}

SlidesWithImage ==
    {ParseInt(d.name) : d \in {e \in imp.disk : e.files \cap AcceptedNames # {}}}

Ascending(seq) == \A x \in 1 .. (Len(seq) - 1) : seq[x] < seq[x + 1]

SeqRange(seq) == {seq[x] : x \in 1 .. Len(seq)}

\* C14: when import has gone through the slide directories, the missing
\* list holds exactly the numbers of the directories with none of the
\* accepted file names, the deck holds exactly the other slides, both in
\* ascending slide order, and import has raised only if no slide at all
\* could be imported.
C14_MissingSlidesReported ==
    ImportDone =>
        /\ SeqRange(imp.missing_slides) = SlidesWithoutImage
        /\ Ascending(imp.missing_slides)
        /\ SeqRange([x \in 1 .. Len(imp.deck) |-> imp.deck[x].slide_num]) = SlidesWithImage
        /\ Ascending([x \in 1 .. Len(imp.deck) |-> imp.deck[x].slide_num])
        /\ \A x \in 1 .. Len(imp.deck) :
              imp.deck[x].image \in DirFiles(imp.disk, imp.deck[x].dir) \cap AcceptedNames
        /\ SlidesWithImage # {} => imp.pc = "returned"

\* reached: five slide directories of which only the third has no image,
\* one of the others holding alternative names only; import returned [3]
\* and saved the four other slides in order
C14_Witness ==
    /\ imp.pc = "returned"
    /\ Cardinality(imp.disk) = 5
    /\ imp.missing_slides = <<3>>
    /\ imp.saved_deck # <<>>
    /\ [x \in 1 .. Len(imp.saved_deck[1]) |-> imp.saved_deck[1][x].slide_num] = <<1, 2, 4, 5>>
    /\ imp.saved_deck[1][2].image = "slide.jpg"

\* C15: after an export of a slide plan of N >= 1 sections, the fill-in of
\* the canonical file in every slide directory and the import of the prompt
\* directory, import has returned an empty missing list and saved a deck of
\* N slides whose k-th slide is the image of the directory exported, with
\* the prompt of the k-th section, as slide k.
C15_RoundTripKeepsSectionOrder ==
    (total >= 1 /\ imp.pc \in {"returned", "raised"}) =>
        /\ imp.pc = "returned"
        /\ imp.missing_slides = <<>>
        /\ Len(imp.saved_deck[1]) = total
        /\ Len(exported_prompts) = total
        /\ \A k \in 1 .. total :
              /\ exported_prompts[k].title = Sections(cfg)[k - 1].title
              /\ results[k].section_id = Sections(cfg)[k - 1].id
              /\ imp.saved_deck[1][k].dir = exported_prompts[k].images_dir.slide
              /\ imp.saved_deck[1][k].slide_num = k
              /\ imp.saved_deck[1][k].image = "generated.png"

\* reached: a three-section plan exported, filled in and imported
C15_Witness ==
    /\ total = 3 /\ imp.pc = "returned"
    /\ Len(imp.saved_deck[1]) = 3
    /\ exported_prompts[3].title = "Background"

\* C16: when import has found slide directories and gone through them, it
\* has raised and saved no deck if it imported no slide, and it has
\* returned, with the deck saved and the missing list handed to main, if it
\* imported at least one slide, whatever is missing.
C16_ZeroImportedIsHardFailure ==
    ImportDone =>
        /\ SlidesWithImage = {} =>
              /\ imp.pc = "raised" /\ imp.saved_deck = <<>>
              /\ imp.main = "import_failed"
        /\ SlidesWithImage # {} =>
              /\ imp.pc = "returned" /\ imp.saved_deck = <<imp.deck>>
              /\ imp.err = ""
              /\ SlidesWithoutImage # {} =>
                    imp.missing_slides # <<>> /\ imp.main = "missing_slides"

\* reached: slide directories none of which holds an accepted file, one of
\* them holding a reference image; import raised
C16_Witness ==
    /\ imp.pc = "raised" /\ imp.err = "no_generated_images"
    /\ Cardinality(imp.disk) >= 2
    /\ \E d \in imp.disk : d.files # {}
    /\ imp.missing_slides # <<>>

\* C21: the style resolver is called at most once in a generate batch,
\* before any slide job exists, and only for the custom style with a
\* non-empty description; no step after the first of generate calls it.
C21_StyleResolvedOncePerBatch ==
    /\ [](/\ style_calls <= 1
          /\ style_calls = 1 => (cfg.style_name = "custom" /\ cfg.custom_style # ""))
    /\ [][style_calls' # style_calls =>
            /\ pc = "generate" /\ style_calls = 0
            /\ NoGenerationRequest /\ results = <<>>]_vars

\* reached: a four-slide deck in the resolved custom style with its pool
\* at work, the resolver having been called once
C21_Witness ==
    /\ ApiSlides /\ total = 4 /\ style_calls = 1
    /\ status[2] = "ok" /\ status[3] = "running"

\* C28: whenever the style request fails in transport (an exception of the
\* client) or in parsing (no JSON, JSON that is no object, no choice to
\* read), the resolver has returned a record with valid false and a
\* non-empty error message, and what generate raises is its own
\* invalid-style error.
C28_StyleResolverNeverRaises ==
    /\ style_calls = 1 => (processed_style # <<>> /\ style_response # <<>>)
    /\ (style_response # <<>> /\ style_response[1].kind # "json") =>
          /\ processed_style # <<>>
          /\ ~processed_style[1].valid
          /\ processed_style[1].error # <<>>
          /\ processed_style[1].error[1] # ""
          /\ pc = "raised" /\ err = "invalid_custom_style"

\* reached: the answer of the style LLM was JSON but not an object
C28_Witness ==
    /\ style_response # <<>> /\ style_response[1].kind = "not_object"
    /\ processed_style # <<>> /\ ~processed_style[1].valid
    /\ cfg.output_type = "slides" /\ total >= 2

ApiPoster == cfg.output_type = "poster" /\ cfg.mode = "api"

\* C22: a poster run in API mode makes the requests of one _call_model
\* invocation (slot 0, at most max_retries requests, no other job, no pool);
\* the step in which that call returns is the step in which generate
\* returns, with exactly one image, whose section identifier is "poster",
\* and with save_callback, when given, invoked exactly once with index 0 and
\* total 1; when the call raises nothing is returned or saved.
C22_PosterIsOneSynchronousJob ==
    ApiPoster =>
        /\ \A k \in Slots \ {0} : attempt[k] = 0 /\ status[k] = "idle"
        /\ attempt[0] <= 3
        /\ executor = "none" /\ queue = <<>>
        /\ (status[0] = "ok") <=> (pc = "returned")
        /\ pc = "returned" =>
              /\ Len(results) = 1
              /\ results[1].section_id = "poster"
              /\ results[1] = future[0][1]
              /\ saved = IF cfg.save_callback
                         THEN <<[section_id |-> "poster", index |-> 0, total |-> 1]>>
                         ELSE <<>>
        /\ pc # "returned" => (results = <<>> /\ saved = <<>>)

\* reached: the poster of a four-section plan returned at the second
\* request and handed to the callback
C22_Witness ==
    /\ ApiPoster /\ total = 4 /\ cfg.save_callback
    /\ pc = "returned" /\ attempt[0] = 2 /\ Len(saved) = 1

\* the alternate names in the order the claim gives them
ClaimedAlternates == <<"generated.jpg", "generated.jpeg", "slide.png", "slide.jpg", "output.png">>

\* the file the claim says is picked among names, <<>> for none
ClaimedPick(names) ==
    IF "generated.png" \in names THEN <<"generated.png">>
    ELSE LET present == {x \in 1 .. Len(ClaimedAlternates) : ClaimedAlternates[x] \in names}
         IN IF present = {} THEN <<>>
            ELSE <<ClaimedAlternates[CHOOSE x \in present : \A y \in present : x <= y]>>

\* C23: when import has gone through the slide directories, the file taken
\* from each directory is generated.png if it exists, else the first
\* existing name of the alternate list in its order, and a slide number is
\* in the missing list exactly when none of the six names exists in its
\* directory.
C23_CanonicalThenAlternatesInOrder ==
    ImportDone =>
        \A d \in imp.disk :
            LET pick == ClaimedPick(d.files)
                slides == {x \in 1 .. Len(imp.deck) : imp.deck[x].dir = d.name}
            IN /\ (pick = <<>>) <=> (ParseInt(d.name) \in SeqRange(imp.missing_slides))
               /\ (pick = <<>>) => slides = {}
               /\ (pick # <<>>) =>
                     /\ Cardinality(slides) = 1
                     /\ \A x \in slides : imp.deck[x].image = pick[1]

\* reached: a directory with three alternates and a reference image but no
\* generated.png, from which generated.jpeg was taken
C23_Witness ==
    /\ imp.pc = "returned"
    /\ imp.disk = {SlideDir(<<0, 1>>, {"output.png", "slide.png", "generated.jpeg",
                                        "ref_1_figure.png"})}
    /\ imp.saved_deck[1][1].image = "generated.jpeg"

\* the structured notes of a sidecar section have talking points
HasTalkingPoints(section) ==
    /\ section.speaker_notes # <<>>
    /\ section.speaker_notes[1].kind = "dict"
    /\ section.speaker_notes[1].talking_points # <<>>

LinesOfKind(text, kind) == SelectSeq(text, LAMBDA l : l.line = kind)

\* C24: with a sidecar plan read, the notes attached to an imported slide
\* are, for the sidecar section of that slide: its speaker_notes_narrative
\* and nothing else if that key is present; else, if its structured notes
\* have talking points, the rendering of these (heading, the points in
\* order, never the body text); else the title and the body text. Every
\* imported slide whose section was read gets its notes.
C24_NotePriority ==
    (ImportDone /\ imp.sidecar.state = "ok") =>
        \A x \in 1 .. Len(imp.deck) : \A y \in 1 .. Len(imp.sidecar.sections) :
            LET section == imp.sidecar.sections[y]
                notes == imp.deck[x].notes
            IN (section.id_kind = "slide" /\ ParseInt(section.num) = imp.deck[x].slide_num) =>
                 /\ (\A z \in 1 .. y : ~SectionRaises(imp.sidecar.sections[z])) => notes # <<>>
                 /\ notes # <<>> =>
                       IF section.narrative # <<>>
                       THEN notes[1] = <<Line("narrative", section.narrative)>>
                       ELSE IF HasTalkingPoints(section)
                       THEN /\ notes[1][1] = Line("heading", <<section.title>>)
                            /\ LinesOfKind(notes[1], "point") =
                                  [p \in 1 .. Len(section.speaker_notes[1].talking_points) |->
                                     Line("point", <<section.speaker_notes[1].talking_points[p]>>)]
                            /\ LinesOfKind(notes[1], "text") = <<>>
                            /\ LinesOfKind(notes[1], "narrative") = <<>>
                       ELSE /\ LinesOfKind(notes[1], "text") =
                                  (IF section.title # "" THEN <<Line("text", <<section.title>>)>>
                                   ELSE <<>>) \o <<Line("text", <<section.content>>)>>
                            /\ LinesOfKind(notes[1], "point") = <<>>
                            /\ LinesOfKind(notes[1], "narrative") = <<>>

\* reached: slide 1 imported with its narrative although its section also
\* has talking points, slide 2 with its rendered talking points
C24_Witness ==
    /\ imp.pc = "returned" /\ imp.sidecar.state = "ok" /\ Len(imp.deck) = 2
    /\ HasTalkingPoints(imp.sidecar.sections[1])
    /\ imp.deck[1].notes = <<(<<Line("narrative", <<"narrative">>)>>)>>
    /\ imp.deck[2].notes # <<>>
    /\ Len(LinesOfKind(imp.deck[2].notes[1], "point")) = 2

\* C25: in API slide mode with at most 2 sections no executor is ever
\* created, no job is queued or started for an index >= 2, the result table
\* of the parallel phase stays empty, and when generate returns the result
\* holds one image per section, in section order.
C25_NoPoolUpToTwoSlides ==
    (ApiSlides /\ total <= 2) =>
        /\ executor = "none" /\ queue = <<>> /\ results_dict = <<>> /\ yielded = {}
        /\ pc \notin {"pool", "collect", "exiting"}
        /\ \A k \in Slots : k >= 2 => (status[k] = "idle" /\ attempt[k] = 0)
        /\ pc = "returned" =>
              /\ Len(results) = total
              /\ \A n \in 1 .. total : results[n].section_id = Sections(cfg)[n - 1].id

\* reached: a two-slide deck returned right after its second slide, which
\* needed all three requests
C25_Witness ==
    /\ ApiSlides /\ total = 2 /\ pc = "returned"
    /\ Len(results) = 2 /\ attempt[1] = 3 /\ executor = "none"

\* C26: the chain instruction in the prompt file of slide n is determined
\* by n: slide 1 is told that no reference is needed, slide 2 to attach the
\* result of slide 1 and that its own result is the style reference of all
\* remaining slides, every slide from 3 on to attach the result of slide 2.
C26_ChainInstructionByPosition ==
    SlidesExport =>
        \A k \in Slots :
            (prompt[k] # <<>> /\ prompt[k][1].chain # <<>>) =>
                LET chain == prompt[k][1].chain[1]
                IN /\ File("prompt", TwoDigits(k + 1), "slide_prompt", ".txt") \in files
                   /\ k = 0 => chain.attach = <<>>
                   /\ k = 1 => /\ chain.attach = <<1>>
                               /\ chain.result_is = "style reference for all remaining slides"
                   /\ k >= 2 => chain.attach = <<2>>

\* reached: the prompt files of four slides written
C26_Witness ==
    /\ SlidesExport /\ total = 4 /\ pc = "returned"
    /\ \A k \in 0 .. 3 : prompt[k] # <<>> /\ prompt[k][1].chain # <<>>

\* the anchor is the first reference of slide index k and the section's
\* loaded figures follow it
AnchorThenFigures(k) ==
    /\ refs[k] # <<>>
    /\ future[1] # <<>>
    /\ refs[k][1] = StyleRefImage(future[1][1].image_data, future[1][1].mime_type)
    /\ Tail(refs[k]) = _filter_images(cfg, {k}, _load_figure_images(cfg))

\* the request content is the prompt, then for each image of rs, in order,
\* its label immediately followed by its data
PromptThenLabelledImages(content, rs) ==
    /\ Len(content) = 1 + 2 * Len(rs)
    /\ content[1].type = "prompt"
    /\ \A x \in 1 .. Len(rs) :
          /\ content[2 * x].type = "text"
          /\ content[2 * x].figure_id = rs[x].figure_id
          /\ content[2 * x + 1].type = "image_url"
          /\ content[2 * x + 1].base64 = rs[x].base64
          /\ content[2 * x + 1].mime_type = rs[x].mime_type

\* C27 as claimed: for every started slide job of index >= 2 the reference
\* list is the anchor followed by the section's figures, and the request of
\* every slide job is the prompt followed, for each reference of the list
\* in order, by its label part and its image part.
C27_EveryReferenceInRequest ==
    ApiSlides =>
        \A k \in Slots :
            prompt[k] # <<>> =>
                /\ k >= 2 => AnchorThenFigures(k)
                /\ PromptThenLabelledImages(prompt[k][1].content, refs[k])

HasImageData(img) == img.base64 # B64Encode(<<>>) /\ img.mime_type # ""

\* C27 amended: as claimed, except that only the references that carry
\* image data and a MIME type contribute their label and image parts; a
\* reference without them contributes no part.
C27_ReferencesWithDataInRequest ==
    ApiSlides =>
        \A k \in Slots :
            prompt[k] # <<>> =>
                /\ k >= 2 => AnchorThenFigures(k)
                /\ PromptThenLabelledImages(prompt[k][1].content,
                                            SelectSeq(refs[k], HasImageData))

\* reached: slide index 2 requested with the anchor, a figure read from an
\* empty file and a second figure: three references, two of them sent
C27_Witness ==
    /\ ApiSlides /\ total >= 3 /\ cfg.fig_file = "empty" /\ cfg.second_fig
    /\ attempt[2] >= 1
    /\ Len(refs[2]) = 3 /\ Len(prompt[2][1].content) = 5

\* the figure of section 2 cannot be loaded
BadFigure == cfg.fig_file \in {"missing", "unreadable"} /\ 2 \in cfg.figs

FigureIdsOf(reference_images) ==
    {reference_images[x].figure_id : x \in 1 .. Len(reference_images)}

\* C29: when the file of a figure is missing or unreadable generate raises
\* for no other reason than a failed backend call or a poster in export
\* mode; the figure is in no reference list, no request and no exported
\* reference file, while the other figure of its section, and the figures
\* of the other sections, are attached wherever a job has started.
C29_UnloadableFigureSkipped ==
    BadFigure =>
        /\ pc = "raised" => err \in {"call_model", "poster_in_prompt_mode"}
        /\ \A k \in Slots :
              /\ FigureIds[3] \notin FigureIdsOf(refs[k])
              /\ prompt[k] # <<>> =>
                    \A x \in 1 .. Len(prompt[k][1].content) :
                        prompt[k][1].content[x].type = "text" =>
                            prompt[k][1].content[x].figure_id # FigureIds[3]
        /\ \A f \in files : f.kind = "ref" => f.name # FigureIds[3]
        /\ (cfg.mode = "api" /\ cfg.output_type = "slides" /\ prompt[2] # <<>>) =>
              (cfg.second_fig <=> SecondFigure \in FigureIdsOf(refs[2]))
        /\ (cfg.mode = "api" /\ cfg.output_type = "slides" /\ prompt[0] # <<>>) =>
              FigureIds[1] \in FigureIdsOf(refs[0])
        /\ (cfg.mode = "api" /\ cfg.output_type = "poster" /\ attempt[0] > 0) =>
              FigureIdsOf(refs[0]) =
                 {FigureIds[k + 1] : k \in cfg.figs \ {2}}
                 \cup (IF cfg.second_fig THEN {SecondFigure} ELSE {})
        /\ (cfg.mode = "prompt" /\ cfg.second_fig /\ Len(results) >= 3) =>
              \E f \in files : f.kind = "ref" /\ f.name = SecondFigure
                                 /\ f.slide = TwoDigits(3)

\* reached: a deck returned whose third section has an unreadable figure
\* and a readable one, the latter sent with the anchor
C29_Witness ==
    /\ BadFigure /\ cfg.fig_file = "unreadable" /\ cfg.second_fig
    /\ ApiSlides /\ total = 4 /\ pc = "returned"
    /\ Len(refs[2]) = 2

\* the layout rule the claim gives slide index k: the entry for the
\* section's type tag, or for "content" when the tag is none of the table's,
\* in the default table for the custom style, in the doraemon table for
\* doraemon, in the academic table otherwise
ClaimedLayout(k) ==
    LET type == Sections(cfg)[k].section_type
    IN << CASE cfg.style_name = "custom" -> "default"
            [] cfg.style_name = "doraemon" -> "doraemon"
            [] OTHER -> "academic",
          IF type \in {"opening", "content", "ending"} THEN type ELSE "content" >>

\* C30: the layout rule in the prompt built for a slide, in an API run as
\* in an export run, is the one the claim gives.
C30_LayoutByTypeWithContentFallback ==
    \A k \in Slots : prompt[k] # <<>> => prompt[k][1].layout_rule = ClaimedLayout(k)

\* reached: an export in the custom style of a deck whose second and fourth
\* sections have a type tag no table knows
C30_Witness ==
    /\ SlidesExport /\ cfg.style_name = "custom" /\ cfg.types = "unrecognized"
    /\ total = 4 /\ pc = "returned"
    /\ prompt[2][1].layout_rule = <<"default", "ending">>
    /\ prompt[3][1].layout_rule = <<"default", "content">>

\* the keys of the result table, in insertion order
TableKeys(rd) == [x \in 1 .. Len(rd) |-> rd[x].idx]

\* C31: the result table of the parallel phase has one writer. Every step
\* that changes it is a step of the thread that called generate, inside the
\* as_completed loop: no job starts, issues a request or completes in that
\* step. The step inserts one entry, under the index of the job just handed
\* over and holding that job's image, and leaves every earlier entry as it
\* was; the table never holds two entries of one index, and when the loop is
\* over it holds one entry for every submitted job.
C31_ResultTableSingleWriter ==
    [][ /\ results_dict' # results_dict =>
            /\ pc = "collect"
            /\ status' = status /\ attempt' = attempt /\ future' = future
            /\ queue' = queue
            /\ \E k \in ParallelIndices(total) \ yielded :
                  /\ yielded' = yielded \cup {k}
                  /\ status[k] = "ok"
                  /\ results_dict' =
                        Append(results_dict, [idx |-> k, img |-> future[k][1]])
                  /\ future[k][1].section_id = Sections(cfg)[k].id
                  /\ \A x \in 1 .. Len(results_dict) : results_dict[x].idx # k
        /\ (pc = "collect" /\ pc' = "returned") =>
              {results_dict[x].idx : x \in 1 .. Len(results_dict)}
                 = ParallelIndices(total)
      ]_vars

\* reached: two workers; the job of index 3 was handed over before the job
\* of index 2, generate has returned and the table holds both entries in
\* that order, each with the image of its own section
C31_Witness ==
    /\ ApiSlides /\ cfg.max_workers = 2 /\ total = 4
    /\ TableKeys(results_dict) = <<3, 2>>
    /\ Lookup(results_dict, 3).section_id = Sections(cfg)[3].id
    /\ Lookup(results_dict, 2).section_id = Sections(cfg)[2].id
    /\ pc = "returned"

\* the slide indices of the save_callback invocations made from the
\* as_completed loop, in the order they were made
PoolSaves(sv) ==
    LET keep == {x \in 1 .. Len(sv) : sv[x].index >= 2 /\ sv[x].total > 2}
        RECURSIVE Pick(_)
        Pick(x) == IF x > Len(sv) THEN <<>>
                   ELSE (IF x \in keep THEN <<sv[x].index>> ELSE <<>>) \o Pick(x + 1)
    IN Pick(1)

\* C32: save_callback invocations are serialized on the thread that called
\* generate. A step that invokes it invokes it once, is a step of that
\* thread (the poster job, the sequential loop, the export loop or the
\* as_completed loop) and is no step of a pool job; before the pool exists
\* no job runs beside it; and the invocations made from the as_completed
\* loop follow the order in which the jobs were handed over as completed,
\* each made before the next job is handed over.
C32_SavesSerializedOnCaller ==
    [][ saved' # saved =>
          /\ cfg.save_callback
          /\ Len(saved') = Len(saved) + 1
          /\ SubSeq(saved', 1, Len(saved)) = saved
          /\ pc \in {"poster", "seq", "export", "collect"}
          /\ pc # "collect" => executor = "none" /\ saved'[Len(saved')].index = i
          /\ pc = "collect" =>
                /\ status' = status /\ attempt' = attempt /\ future' = future
                /\ queue' = queue
                /\ \E k \in ParallelIndices(total) \ yielded :
                      /\ yielded' = yielded \cup {k}
                      /\ saved'[Len(saved')].index = k
                      /\ saved'[Len(saved')].section_id = Sections(cfg)[k].id
                /\ PoolSaves(saved') = TableKeys(results_dict')
      ]_vars

\* reached: two workers and a save callback; the job of index 3 has been
\* handed over and saved, after the two sequential slides, while the job of
\* index 2 is still running on the other worker
C32_Witness ==
    /\ ApiSlides /\ cfg.max_workers = 2 /\ cfg.save_callback /\ total = 4
    /\ [x \in 1 .. Len(saved) |-> saved[x].index] = <<0, 1, 3>>
    /\ status[2] = "running"
    /\ pc = "collect"

\* the slide numbers of the deck built so far, in deck order
DeckNumbers == [x \in 1 .. Len(imp.deck) |-> imp.deck[x].slide_num]

\* C33: whatever slide directories the prompt directory holds, the slides
\* are added to the deck in ascending order of their slide numbers.
C33_DeckInNumericOrder ==
    Ascending(DeckNumbers)

\* the position of the first section of the sidecar at which reading it
\* fails; one past the last section if none fails
FirstFailure(sections) ==
    LET failing == {x \in 1 .. Len(sections) : SectionRaises(sections[x])}
    IN IF failing = {} THEN Len(sections) + 1
       ELSE CHOOSE x \in failing : \A y \in failing : x <= y

SidecarFails ==
    \/ imp.sidecar.state = "unreadable"
    \/ /\ imp.sidecar.state = "ok"
       /\ FirstFailure(imp.sidecar.sections) <= Len(imp.sidecar.sections)

\* the notes recovered for slide number n: those of the last section for
\* that slide that precedes the failure
RecoveredNotes(n) ==
    LET sections == imp.sidecar.sections
        before == {x \in 1 .. (FirstFailure(sections) - 1) :
                     sections[x].id_kind = "slide" /\ ParseInt(sections[x].num) = n}
    IN IF imp.sidecar.state # "ok" \/ before = {} THEN <<>>
       ELSE <<NotesText(sections[CHOOSE x \in before : \A y \in before : y <= x])>>

\* C34: when reading the sidecar fails, because the file is unreadable or
\* because a section's id has no number or its notes are malformed, the
\* import goes through the slide directories as it does without a sidecar:
\* it raises only if no slide has an image, the deck holds the slides that
\* have one, the others are reported missing, and a slide of the deck
\* carries notes exactly if a section for it was read before the failure.
C34_SidecarFailureKeepsImport ==
    (SidecarFails /\ imp.pc # "start") =>
        /\ imp.err # "no_slide_dirs"
        /\ ImportDone =>
              /\ SeqRange(DeckNumbers) = SlidesWithImage
              /\ SeqRange(imp.missing_slides) = SlidesWithoutImage
              /\ SlidesWithImage # {} =>
                    imp.pc = "returned" /\ imp.saved_deck = <<imp.deck>>
        /\ \A x \in 1 .. Len(imp.deck) :
              imp.deck[x].notes = RecoveredNotes(imp.deck[x].slide_num)

\* reached: the sidecar's first section was read, the id of its second
\* section has no number; both slides were imported, the first with its
\* narrative and the second without notes
C34_Witness ==
    /\ imp.sidecar.state = "ok"
    /\ imp.sidecar.sections[1].id_kind = "slide"
    /\ imp.sidecar.sections[2].id_kind = "bad_number"
    /\ imp.pc = "returned"
    /\ Len(imp.saved_deck[1]) = 2
    /\ imp.saved_deck[1][1].notes = << <<Line("narrative", <<"narrative">>)>> >>
    /\ imp.saved_deck[1][2].notes = <<>>

\* the prompt file of slide number n
PromptFile(n) == File("prompt", Format02d(n), "slide_prompt", ".txt")

InstructionsWritten == File("instructions", <<>>, INSTRUCTIONS_FILENAME, "") \in files

\* C35: in an export run of a slide plan, the instructions document exists
\* only once the prompt file of every slide, the last included, has been
\* written and recorded; and when the export of slide i + 1 has failed, the
\* run has raised, there is no instructions document, and the prompt files
\* of the i slides exported before are still there and recorded.
C35_InstructionsAfterLastPrompt ==
    SlidesExport =>
        /\ InstructionsWritten =>
              /\ \A n \in 1 .. total : PromptFile(n) \in files
              /\ Len(exported_prompts) = total
              /\ Len(results) = total
              /\ pc = "returned"
        /\ (pc = "raised" /\ err \in {"os_error", "prompt_output_dir_not_set"}) =>
              /\ ~InstructionsWritten
              /\ i < total
              /\ \A n \in 1 .. i :
                    /\ PromptFile(n) \in files
                    /\ exported_prompts[n].prompt_file = PromptFile(n)
        /\ (pc \in {"export", "instructions"}) => ~InstructionsWritten

\* reached: the prompt file of the third of four slides could not be
\* written; the run raised with the prompt files of slides 1 and 2 and the
\* directory of slide 3 on disk, and without instructions document
C35_Witness ==
    /\ SlidesExport /\ total = 4
    /\ pc = "raised" /\ err = "os_error" /\ i = 2
    /\ PromptFile(1) \in files /\ PromptFile(2) \in files
    /\ PromptFile(3) \notin files
    /\ File("slide_dir", Format02d(3), "slide_images", "") \in files
    /\ ~InstructionsWritten

\* the reference files written into the directory of slide number n
RefFilesOf(n) == {f \in files : f.kind = "ref" /\ f.slide = Format02d(n)}

\* C36: in an export run of a slide plan, every file in a slide's directory
\* is the copy of a figure that the section of that slide references, the
\* reference images listed for the slide are the files saved there, no
\* anchor is ever captured, and the placeholders go to the output directory
\* only; this for the slides from the third on as for the first two.
C36_ExportSavesOwnFiguresOnly ==
    SlidesExport =>
        /\ style_ref_image = <<>>
        /\ \A f \in files :
              /\ f.kind = "ref" =>
                    \E k \in 0 .. (total - 1) :
                       /\ f.slide = Format02d(k + 1)
                       /\ f.name \in SeqRange(Sections(cfg)[k].figures)
              /\ f.kind = "output" => f.slide = <<>>
              /\ f.name # "Reference Slide"
        /\ \A x \in 1 .. Len(exported_prompts) :
              /\ SeqRange(exported_prompts[x].reference_images)
                    = {f.name : f \in RefFilesOf(exported_prompts[x].slide_num)}
              /\ SeqRange(exported_prompts[x].reference_images)
                    \subseteq SeqRange(Sections(cfg)[x - 1].figures)

\* reached: a four-section plan exported; the directory of slide 3 holds the
\* copies of the two figures its section references, and nothing else was
\* saved or listed for slides 2 and 4, whose sections reference no figure
C36_Witness ==
    /\ SlidesExport /\ total = 4 /\ pc = "returned"
    /\ cfg.second_fig /\ cfg.fig_file = "ok"
    /\ {f.name : f \in RefFilesOf(3)} = {FigureIds[3], SecondFigure}
    /\ exported_prompts[3].reference_images = <<FigureIds[3], SecondFigure>>
    /\ RefFilesOf(2) = {} /\ RefFilesOf(4) = {}
    /\ exported_prompts[4].reference_images = <<>>

\* C37: one _call_model invocation handles every failed attempt the same
\* way, whether the client raised, the image URL was no data: URL or a data:
\* URL that cannot be decoded, or the response was malformed: while fewer
\* than 3 attempts have failed it goes on, the third failure raises, and it
\* returns only upon a response with a data: URL image, with the decoded
\* bytes and the MIME type of that image.
C37_EveryFailureRetriedAlike ==
    LET n == Len(cm.log)
        failures == {x \in 1 .. n : cm.log[x].kind # "data"}
    IN /\ n <= max_retries
       /\ cm.state = "running" => failures = 1 .. n /\ n < max_retries
       /\ cm.state = "raised" =>
             failures = 1 .. n /\ n = max_retries /\ cm.image_data = <<>>
       /\ cm.state = "returned" =>
             /\ failures = 1 .. (n - 1)
             /\ cm.log[n].kind = "data"
             /\ cm.image_data = B64Decode(cm.log[n].payload)
             /\ cm.mime_type = cm.log[n].mime
       /\ (failures # {} /\ n < max_retries) => cm.state # "raised"

\* reached: the client raised, then answered an image with an http URL,
\* then an image with a data: URL, which was returned
C37_Witness ==
    /\ cm.state = "returned" /\ Len(cm.log) = 3
    /\ cm.log[1].kind = "exception" /\ cm.log[2].kind = "url"
    /\ cm.image_data = <<8>> /\ cm.mime_type = "image/png"

\* no element occurs twice in the sequence
NoRepeat(seq) == \A x, y \in 1 .. Len(seq) : seq[x] = seq[y] => x = y

\* C38: every slide directory that import has gone through is accounted
\* for once, as a slide of the deck or as an entry of the missing list:
\* together they are as many as the directories gone through, all of those
\* found once the loop is over; their numbers are those of the directories,
\* no number is in both and none is twice in either, and imported_count is
\* the number of slides in the deck.
C38_EveryDirectoryAccountedOnce ==
    imp.pc \in {"loop", "finish", "returned", "raised"} /\ imp.err # "no_slide_dirs" =>
        /\ Len(imp.deck) + Len(imp.missing_slides) = imp.k - 1
        /\ ImportDone =>
              /\ Len(imp.deck) + Len(imp.missing_slides) = Len(imp.slide_dirs)
              /\ Len(imp.slide_dirs) = Cardinality(imp.disk)
              /\ SeqRange(DeckNumbers) \cup SeqRange(imp.missing_slides)
                    = {ParseInt(d.name) : d \in imp.disk}
        /\ imp.pc = "returned" =>
              Len(imp.saved_deck[1]) + Len(imp.missing_slides) = Cardinality(imp.disk)
        /\ SeqRange(DeckNumbers) \cap SeqRange(imp.missing_slides) = {}
        /\ NoRepeat(DeckNumbers) /\ NoRepeat(imp.missing_slides)
        /\ imp.imported_count = Len(imp.deck)

\* reached: five slide directories, two of them without an image; import
\* returned a deck of three slides and a missing list of two
C38_Witness ==
    /\ imp.pc = "returned"
    /\ Cardinality(imp.disk) = 5
    /\ Len(imp.saved_deck[1]) = 3
    /\ imp.missing_slides = <<2, 5>>

EnhanceDone == enh.pc \in {"returned", "raised"} /\ enh.err # "invalid_checkpoint"

\* the sections that have a narrative they did not have in the file given
Narrated(sections) ==
    {x \in 1 .. Len(sections) : sections[x].narrative # enh.input[x].narrative}

\* the section has talking points
StructuredNotes(section) ==
    /\ section.speaker_notes # <<>>
    /\ section.speaker_notes[1].kind # "text"
    /\ section.speaker_notes[1].talking_points # <<>>

\* a section fails: reading its notes or transforming them raises
SectionFails(section) ==
    /\ section.speaker_notes # <<>>
    /\ section.speaker_notes[1].kind \in {"text", "dict_null_terms"}

\* What enhance_speaker_notes keeps and counts, whether or not it goes
\* through every section: the structured notes of every section stay as
\* they were, a section without talking points or that failed is unchanged,
\* the file is rewritten at most once, only by a run that returns a count
\* above 0, and then holds the sections in memory; a run that returns has
\* gone through every section and returns the number of sections that
\* received a narrative.
EnhanceKeepsAndCounts ==
    enh.pc # "idle" /\ enh.doc = "ok" =>
        /\ Len(enh.sections) = Len(enh.input)
        /\ \A x \in 1 .. Len(enh.input) :
              /\ enh.sections[x].speaker_notes = enh.input[x].speaker_notes
              /\ (~StructuredNotes(enh.input[x]) \/ SectionFails(enh.input[x])) =>
                    enh.sections[x] = enh.input[x]
        /\ enh.enhanced_count = Cardinality(Narrated(enh.sections))
        /\ enh.saves <= 1
        /\ enh.saves = 1 <=> (enh.pc = "returned" /\ enh.enhanced_count > 0)
        /\ enh.file = IF enh.saves = 1 THEN enh.sections ELSE enh.input
        /\ enh.pc = "returned" =>
              /\ enh.result = <<Cardinality(Narrated(enh.sections))>>
              /\ \A x \in 1 .. Len(enh.input) :
                    (StructuredNotes(enh.input[x]) /\ ~SectionFails(enh.input[x])) =>
                        x \in Narrated(enh.sections)

\* C39: a finished run of enhance_speaker_notes on a checkpoint with a plan
\* has returned the number of sections that received a narrative; sections
\* without talking points are unchanged and every section keeps its
\* structured notes; a section that failed did not stop the run, so every
\* other section with talking points has its narrative; and the file was
\* rewritten, with these sections, exactly if that number is above 0.
C39_EnhanceContinuesPastFailure ==
    EnhanceDone =>
        /\ enh.pc = "returned"
        /\ enh.result = <<Cardinality(Narrated(enh.sections))>>
        /\ \A x \in 1 .. Len(enh.input) :
              /\ enh.sections[x].speaker_notes = enh.input[x].speaker_notes
              /\ ~StructuredNotes(enh.input[x]) => enh.sections[x] = enh.input[x]
              /\ (StructuredNotes(enh.input[x]) /\ ~SectionFails(enh.input[x])) =>
                    x \in Narrated(enh.sections)
        /\ enh.saves = (IF Narrated(enh.sections) # {} THEN 1 ELSE 0)
        /\ enh.file = IF enh.saves = 1 THEN enh.sections ELSE enh.input

====
